---- MODULE Spec2Model ----
(***************************************************************************)
(* Timeline synthesis of backend/services/timeline.py: scene contexts,     *)
(* pass-1 scoring, pass-2 selection, hysteresis segment construction, the  *)
(* angle-diversity post-process and the ad-slot planner.                   *)
(*                                                                         *)
(* Scores are kept in thousandths of a point (37.5 points = 37500), so     *)
(* that the quarter-point base scores and the 0.3 / 0.4 / 0.5 multipliers  *)
(* stay exact.  Times are in milliseconds, as in the source.               *)
(***************************************************************************)
EXTENDS Integers, Sequences, FiniteSets, TLC

VARIABLES
    pc,                \* position of the run
    event_type,        \* event category passed by the caller
    videos,            \* camera list: sequence of [id, angle_type, embeddings]
    source_duration_ms,\* get_video_duration_ms(videos[0]["path"])
    max_duration_ms,   \* optional override (0 = None)
    all_moments,       \* pass-1 output
    selected_moments,  \* pass-2 output
    current_segment,   \* segment under construction (NoSegment = None)
    segments,          \* finished segments
    duration_ms,       \* duration handed to generate_ad_slots
    profile,           \* name of the switching profile handed to generate_ad_slots
    index_id,          \* TRUE when a search index id is given, FALSE for None
    scene_contexts,    \* result of build_scene_contexts
    search,            \* outcomes of the search collaborator, per query
    ad_slots,          \* result of generate_ad_slots
    video_paths,       \* sync_videos: the feeds, the first is the reference
    feed_outcomes,     \* sync_videos: what the audio of each feed gives
    offsets,           \* sync_videos: the returned list
    zooms,             \* result of generate_zoom_moments
    chapters,          \* result of generate_chapters
    calls,             \* collaborator calls made so far: [duration, search]
    score_call,        \* score_angle_at_time: the arguments of the call
    angle_score        \* score_angle_at_time: the returned score

vars == << pc, event_type, videos, source_duration_ms, max_duration_ms,
           all_moments, selected_moments, current_segment, segments,
           duration_ms, profile, index_id, scene_contexts, search, ad_slots,
           video_paths, feed_outcomes, offsets,
           zooms, chapters, calls,
           score_call, angle_score >>

score_vars == << score_call, angle_score >>

\* no separate call of score_angle_at_time in this run
IdleScore ==
    /\ score_call = << >>
    /\ angle_score = [score |-> 0, score_drift |-> 0]


out_vars == << zooms, chapters, calls >>

NoCalls == [duration |-> 0, search |-> 0]

\* no zooms or chapters planned and no collaborator called in this run
IdleOutputs ==
    /\ zooms = << >>
    /\ chapters = << >>
    /\ calls = NoCalls

sync_vars == << video_paths, feed_outcomes, offsets >>

\* no call of sync_videos in this run
IdleSync ==
    /\ video_paths = << >>
    /\ feed_outcomes = << >>
    /\ offsets = << >>


(***************************************************************************)
(* Bounds of the model                                                     *)
(***************************************************************************)
MaxBuckets == 11       \* 2-second buckets fed to the segment builder
MaxGap == 1            \* buckets that pass 2 may drop between two moments
MaxCameras == 2        \* cameras of a run
MaxAdBlocks == 3       \* longest ad-planner duration, in units of 4 minutes
MaxSourceBuckets == 11 \* longest source of a generate_timeline run, in buckets
MaxMomentCameras == 3  \* cameras of a uniform table of moments
MaxMomentBuckets == 30 \* buckets of a uniform table of moments
MaxFeeds == 3          \* feeds handed to sync_videos
MaxZoomHits == 3       \* hits of the zoom query
MaxDivSegments == 3    \* segments handed to the diversity post-process alone
MaxTiedBuckets == 7    \* buckets of a run on tied scores
MaxListMoments == 3    \* moments of a list with times off the buckets

(***************************************************************************)
(* config.py                                                               *)
(***************************************************************************)
Scale == 1000          \* thousandths of a score point

MIN_SEGMENT_DURATION_MS == 8000
MAX_SEGMENT_DURATION_MS == 20000
MAX_TOTAL_DURATION_MS == 300000
MIN_SEGMENT_QUALITY_SCORE == 30 * Scale

EventTypes == {"sports", "ceremony", "performance", "speech", "lecture"}

MIN_SEGMENT_DURATION_BY_EVENT ==
    [sports |-> 4000, ceremony |-> 10000, performance |-> 6000,
     speech |-> 10000, lecture |-> 12000]

\* HYSTERESIS_THRESHOLD = 0.30, kept in tenths
HYSTERESIS_THRESHOLD == 3

BUCKET_MS == 2000

\* MIN_SEGMENT_DURATION_BY_EVENT.get(event_type, VideoConfig.MIN_SEGMENT_DURATION_MS)
min_segment_ms_of(et) ==
    IF et \in DOMAIN MIN_SEGMENT_DURATION_BY_EVENT
    THEN MIN_SEGMENT_DURATION_BY_EVENT[et]
    ELSE MIN_SEGMENT_DURATION_MS

(***************************************************************************)
(* Small helpers                                                           *)
(***************************************************************************)
Min2(a, b) == IF a <= b THEN a ELSE b
Max2(a, b) == IF a >= b THEN a ELSE b

(***************************************************************************)
(* Python floats.  The scores of the program are IEEE-754 doubles; the     *)
(* model keeps a score s as the integer 1000 x s and stands for the double *)
(* nearest to s / 1000.  Products of the program are compared where the    *)
(* exact values can be equal and the doubles are not (line 568, line 659,  *)
(* the penalised ad scores sorted at line 990), and audio_sync.py cuts a   *)
(* product to an integer (line 59); there the model computes the doubles   *)
(* themselves: a double is                                                 *)
(* sign x m x Limb^(-k) with m a natural number of at most 53 bits, held   *)
(* as a sequence of 15-bit limbs, lowest first, and every operation rounds *)
(* its exact result to the nearest double, ties to even.                   *)
(***************************************************************************)
Limb == 32768
MantissaBits == 53

RECURSIVE bn_norm(_)
bn_norm(a) ==
    IF a = << >> THEN a
    ELSE IF a[Len(a)] = 0 THEN bn_norm(SubSeq(a, 1, Len(a) - 1))
    ELSE a

RECURSIVE bn_of(_)
bn_of(n) == IF n = 0 THEN << >> ELSE << n % Limb >> \o bn_of(n \div Limb)

RECURSIVE bn_to_int(_)
bn_to_int(a) == IF a = << >> THEN 0 ELSE a[1] + Limb * bn_to_int(Tail(a))

bn_limb(a, i) == IF i <= Len(a) THEN a[i] ELSE 0

\* -1, 0, 1 as a < b, a = b, a > b; looks at the limbs i, i - 1, ..., 1
RECURSIVE bn_cmp_from(_, _, _)
bn_cmp_from(a, b, i) ==
    IF i = 0 THEN 0
    ELSE IF a[i] < b[i] THEN -1
    ELSE IF a[i] > b[i] THEN 1
    ELSE bn_cmp_from(a, b, i - 1)

bn_cmp(a, b) ==
    IF Len(a) < Len(b) THEN -1
    ELSE IF Len(a) > Len(b) THEN 1
    ELSE bn_cmp_from(a, b, Len(a))

RECURSIVE bn_add_from(_, _, _, _)
bn_add_from(a, b, i, carry) ==
    IF i > Len(a) /\ i > Len(b)
    THEN IF carry = 0 THEN << >> ELSE << carry >>
    ELSE LET t == bn_limb(a, i) + bn_limb(b, i) + carry
         IN  << t % Limb >> \o bn_add_from(a, b, i + 1, t \div Limb)

bn_add(a, b) == bn_add_from(a, b, 1, 0)

\* a - b for a >= b
RECURSIVE bn_sub_from(_, _, _, _)
bn_sub_from(a, b, i, borrow) ==
    IF i > Len(a) THEN << >>
    ELSE LET t == a[i] - bn_limb(b, i) - borrow
         IN  << (t + Limb) % Limb >> \o bn_sub_from(a, b, i + 1, IF t < 0 THEN 1 ELSE 0)

bn_sub(a, b) == bn_norm(bn_sub_from(a, b, 1, 0))

\* a x k for 0 <= k < Limb
RECURSIVE bn_mul_small_from(_, _, _, _)
bn_mul_small_from(a, k, i, carry) ==
    IF i > Len(a)
    THEN IF carry = 0 THEN << >> ELSE << carry >>
    ELSE LET t == a[i] * k + carry
         IN  << t % Limb >> \o bn_mul_small_from(a, k, i + 1, t \div Limb)

bn_mul_small(a, k) == IF k = 0 THEN << >> ELSE bn_mul_small_from(a, k, 1, 0)

\* a x Limb^j
bn_shift(a, j) == IF a = << >> THEN a ELSE [i \in 1..j |-> 0] \o a

RECURSIVE bn_mul_from(_, _, _)
bn_mul_from(a, b, j) ==
    IF j > Len(b) THEN << >>
    ELSE bn_add(bn_shift(bn_mul_small(a, b[j]), j - 1), bn_mul_from(a, b, j + 1))

bn_mul(a, b) == bn_mul_from(a, b, 1)

\* quotient and remainder of a by d, 0 < d < Limb; looks at the limbs
\* i, i - 1, ..., 1 with the remainder r of the limbs above
RECURSIVE bn_div_small_from(_, _, _, _)
bn_div_small_from(a, d, i, r) ==
    IF i = 0 THEN [q |-> << >>, r |-> r]
    ELSE LET t == r * Limb + a[i]
             rest == bn_div_small_from(a, d, i - 1, t % d)
         IN  [q |-> Append(rest.q, t \div d), r |-> rest.r]

bn_div_small(a, d) ==
    LET res == bn_div_small_from(a, d, Len(a), 0)
    IN  [q |-> bn_norm(res.q), r |-> res.r]

RECURSIVE bits_of(_)
bits_of(n) == IF n = 0 THEN 0 ELSE 1 + bits_of(n \div 2)

bn_bitlen(a) == IF a = << >> THEN 0 ELSE 15 * (Len(a) - 1) + bits_of(a[Len(a)])

RECURSIVE pow2(_)
pow2(d) == IF d = 0 THEN 1 ELSE 2 * pow2(d - 1)

\* a x 2^d
bn_shl(a, d) == bn_shift(bn_mul_small(a, pow2(d % 15)), d \div 15)

\* floor(a / 2^d)
bn_shr(a, d) ==
    IF d \div 15 >= Len(a) THEN << >>
    ELSE bn_div_small(SubSeq(a, d \div 15 + 1, Len(a)), pow2(d % 15)).q

\* the natural number of at most 53 bits times a power of two that is
\* nearest to a (to a plus a positive fraction if sticky), ties to even
round53(a, sticky) ==
    LET d == bn_bitlen(a) - MantissaBits IN
    IF d <= 0 THEN a
    ELSE LET q == bn_shr(a, d)
             c == bn_cmp(bn_sub(a, bn_shl(q, d)), bn_shl(<< 1 >>, d - 1))
             up == c > 0 \/ (c = 0 /\ (sticky \/ q[1] % 2 = 1))
         IN  bn_shl(IF up THEN bn_add(q, << 1 >>) ELSE q, d)

\* the same value with no zero limb at the low end
RECURSIVE fl_trim(_)
fl_trim(x) ==
    IF x.m = << >> THEN [sign |-> 1, m |-> << >>, k |-> 0]
    ELSE IF x.k > 0 /\ x.m[1] = 0 THEN fl_trim([x EXCEPT !.m = Tail(@), !.k = @ - 1])
    ELSE x

\* float(p) / float(q) for integers p and 0 < q < Limb, both exact as doubles
fl_of_ratio(p, q) ==
    LET res == bn_div_small(bn_shift(bn_of(IF p < 0 THEN -p ELSE p), 7), q)
    IN  fl_trim([sign |-> IF p < 0 THEN -1 ELSE 1,
                 m |-> round53(res.q, res.r # 0), k |-> 7])

\* x / float(n) for an integer 0 < n < Limb
fl_div_small(x, n) ==
    LET res == bn_div_small(bn_shift(x.m, 5), n)
    IN  fl_trim([sign |-> x.sign, m |-> round53(res.q, res.r # 0), k |-> x.k + 5])

fl_mul(x, y) ==
    fl_trim([sign |-> x.sign * y.sign, m |-> round53(bn_mul(x.m, y.m), FALSE),
             k |-> x.k + y.k])

\* x + y, not rounded
fl_sum(x, y) ==
    LET k == IF x.k >= y.k THEN x.k ELSE y.k
        a == bn_shift(x.m, k - x.k)
        b == bn_shift(y.m, k - y.k)
        c == bn_cmp(a, b)
    IN  fl_trim(IF x.sign = y.sign THEN [sign |-> x.sign, m |-> bn_add(a, b), k |-> k]
                ELSE IF c >= 0 THEN [sign |-> x.sign, m |-> bn_sub(a, b), k |-> k]
                ELSE [sign |-> y.sign, m |-> bn_sub(b, a), k |-> k])

fl_add(x, y) ==
    LET s == fl_sum(x, y) IN fl_trim([s EXCEPT !.m = round53(@, FALSE)])

fl_neg(x) == fl_trim([x EXCEPT !.sign = -@])

\* x times an integer 0 <= n < Limb, not rounded
fl_scale(x, n) == fl_trim([x EXCEPT !.m = bn_mul_small(@, n)])

\* -1, 0, 1 as x < y, x = y, x > y
fl_cmp(x, y) ==
    LET d == fl_sum(x, fl_neg(y))
    IN  IF d.m = << >> THEN 0 ELSE d.sign

\* int(x): the integer part of x, towards zero
fl_int(x) ==
    x.sign * bn_to_int(IF x.k >= Len(x.m) THEN << >> ELSE SubSeq(x.m, x.k + 1, Len(x.m)))

\* the double nearest to s / 1000, for a score s kept in thousandths
score_double(s) == fl_of_ratio(s, Scale)

\* d x 2^(-62) for an integer d: every double of magnitude 0.001 or more is
\* a multiple of 2^(-62), and so is every sum of such doubles
drift_double(d) ==
    fl_trim([sign |-> IF d < 0 THEN -1 ELSE 1,
             m |-> bn_mul_small(bn_of(IF d < 0 THEN -d ELSE d), 8192), k |-> 5])

\* the integer d with x = d x 2^(-62)
drift_of(x) ==
    x.sign * bn_to_int(bn_div_small(bn_shift(x.m, 5 - x.k), 8192).q)

\* the literals 1 + HYSTERESIS_THRESHOLD, 0.6 and 0.4 as the program holds them
ONE_PLUS_HYSTERESIS == fl_add(fl_of_ratio(1, 1), fl_of_ratio(HYSTERESIS_THRESHOLD, 10))
SCORE_WEIGHT == fl_of_ratio(6, 10)
ENGAGEMENT_WEIGHT == fl_of_ratio(4, 10)

\* a score of s thousandths that the program holds as the double nearest to
\* s / 1000 plus d x 2^(-62)
Score(s, d) == [score |-> s, score_drift |-> d]

\* the double of a record with the fields score and score_drift
held_double(x) == fl_sum(score_double(x.score), drift_double(x.score_drift))

\* x < y on the doubles held: two different values in thousandths are
\* further apart than any drift
held_less(x, y) ==
    x.score < y.score \/ (x.score = y.score /\ x.score_drift < y.score_drift)

\* a moment whose score is sc = [score, score_drift]
ScoredMoment(t, v, sc, e) ==
    [time_ms |-> t, video_id |-> v, score |-> sc.score, score_drift |-> sc.score_drift,
     engagement |-> e]

\* a moment whose score is the double nearest to s / 1000
Moment(t, v, s, e) == ScoredMoment(t, v, Score(s, 0), e)

\* current_segment = None.  total_score is the running total in thousandths,
\* rounded; the double the program holds is the double nearest to
\* total_score / 1000 plus total_score_drift x 2^(-62)
NoSegment == [start_ms |-> 0, end_ms |-> 0, video_id |-> 0,
              total_score |-> 0, total_score_drift |-> 0,
              total_engagement |-> 0, moment_count |-> 0]

Seg(s, e, v) == [start_ms |-> s, end_ms |-> e, video_id |-> v]

SegDuration(s) == s.end_ms - s.start_ms

(***************************************************************************)
(* _can_extend_segment_with_hysteresis                                     *)
(***************************************************************************)
\* a slip: the "same video - always extend" test is missing
_can_extend_without_same_video(segment, m, min_segment_ms) ==
    LET current_duration == segment.end_ms - segment.start_ms IN
    IF current_duration >= MAX_SEGMENT_DURATION_MS THEN FALSE
    ELSE IF m.time_ms # segment.end_ms THEN FALSE
    ELSE IF current_duration < min_segment_ms THEN TRUE
    ELSE FALSE

_can_extend_segment_with_hysteresis(segment, m, min_segment_ms) ==
    LET current_duration == segment.end_ms - segment.start_ms IN
    IF current_duration >= MAX_SEGMENT_DURATION_MS THEN FALSE
    ELSE IF m.time_ms # segment.end_ms THEN FALSE
    ELSE IF m.video_id = segment.video_id THEN TRUE
    ELSE IF current_duration < min_segment_ms THEN TRUE
    ELSE FALSE

(***************************************************************************)
(* build_variable_segments: the body of the loop over selected_moments.    *)
(* Returns the new current_segment and the new list of finished segments.  *)
(***************************************************************************)
NewSegment(m) ==
    [start_ms |-> m.time_ms, end_ms |-> m.time_ms + BUCKET_MS,
     video_id |-> m.video_id, total_score |-> m.score,
     total_score_drift |-> m.score_drift,
     total_engagement |-> m.engagement, moment_count |-> 1]

\* current_segment["total_score"] as the program holds it
total_score_double(cur) ==
    fl_sum(score_double(cur.total_score), drift_double(cur.total_score_drift))

\* current_segment["total_score"] += moment["score"]: the drift of the new
\* total.  Multiples of 1/8 of this size and their sums are doubles, so
\* nothing is rounded when both numbers are such multiples.
total_score_drift_after(cur, m) ==
    IF cur.total_score_drift = 0 /\ cur.total_score % 125 = 0
       /\ m.score_drift = 0 /\ m.score % 125 = 0
    THEN 0
    ELSE drift_of(fl_sum(fl_add(total_score_double(cur), held_double(m)),
                         fl_neg(score_double(cur.total_score + m.score))))

\* current_avg_score * (1 + HYSTERESIS_THRESHOLD), in doubles
hysteresis_bound(cur) ==
    fl_mul(fl_div_small(total_score_double(cur), cur.moment_count), ONE_PLUS_HYSTERESIS)

\* a slip: "<" where the source has "<="
NotSignificantlyBetter_strict(cur, m) ==
    LET lhs == m.score * 10 * cur.moment_count
        rhs == cur.total_score * (10 + HYSTERESIS_THRESHOLD)
    IN  IF lhs # rhs THEN lhs < rhs
        ELSE fl_cmp(held_double(m), hysteresis_bound(cur)) < 0

\* moment["score"] <= current_avg_score * (1 + HYSTERESIS_THRESHOLD).  The
\* doubles are within 2^(-50) of the exact values in proportion and two
\* different exact values are at least 1 / (10000 x moment_count) apart, so
\* the exact values decide unless they are equal; then the doubles decide.
NotSignificantlyBetter(cur, m) ==
    LET lhs == m.score * 10 * cur.moment_count
        rhs == cur.total_score * (10 + HYSTERESIS_THRESHOLD)
    IN  IF lhs # rhs THEN lhs < rhs
        ELSE fl_cmp(held_double(m), hysteresis_bound(cur)) <= 0

bvs_step(cur, segs, m, effective_min_ms) ==
    IF cur = NoSegment
    THEN [cur |-> NewSegment(m), segs |-> segs]
    ELSE IF _can_extend_segment_with_hysteresis(cur, m, effective_min_ms)
    THEN [cur |-> [cur EXCEPT !.end_ms = m.time_ms + BUCKET_MS,
                              !.total_score = @ + m.score,
                              !.total_score_drift = total_score_drift_after(cur, m),
                              !.total_engagement = @ + m.engagement,
                              !.moment_count = @ + 1],
          segs |-> segs]
    ELSE IF cur.end_ms - cur.start_ms < effective_min_ms
    THEN \* forced extension: the score is not added to the running total
         [cur |-> [cur EXCEPT !.end_ms = m.time_ms + BUCKET_MS,
                              !.moment_count = @ + 1],
          segs |-> segs]
    ELSE IF NotSignificantlyBetter(cur, m)
    THEN [cur |-> [cur EXCEPT !.end_ms = m.time_ms + BUCKET_MS,
                              !.total_score = @ + m.score,
                              !.total_score_drift = total_score_drift_after(cur, m),
                              !.total_engagement = @ + m.engagement,
                              !.moment_count = @ + 1],
          segs |-> segs]
    ELSE [cur |-> NewSegment(m),
          segs |-> Append(segs, Seg(cur.start_ms, cur.end_ms, cur.video_id))]

\* "Add final segment"
bvs_finish(cur, segs) ==
    IF cur # NoSegment
    THEN Append(segs, Seg(cur.start_ms, cur.end_ms, cur.video_id))
    ELSE segs

\* the loop over ms[lo..hi], in order (split in halves to keep the
\* evaluation shallow); st = [cur, segs].  After one moment current_segment
\* is never None again, so the test on left.cur only orders the evaluation.
RECURSIVE bvs_loop(_, _, _, _, _)
bvs_loop(st, ms, lo, hi, effective_min_ms) ==
    IF lo > hi THEN st
    ELSE IF lo = hi THEN bvs_step(st.cur, st.segs, ms[lo], effective_min_ms)
    ELSE LET mid == (lo + hi) \div 2
             left == bvs_loop(st, ms, lo, mid, effective_min_ms)
         IN  IF left.cur = NoSegment THEN left
             ELSE bvs_loop(left, ms, mid + 1, hi, effective_min_ms)

\* min_segment_ms = 0 stands for None
build_variable_segments(ms, et, min_segment_ms) ==
    IF ms = << >> THEN << >>
    ELSE LET effective_min_ms == IF min_segment_ms # 0 THEN min_segment_ms
                                 ELSE min_segment_ms_of(et)
             st == bvs_loop([cur |-> NoSegment, segs |-> << >>], ms, 1, Len(ms),
                            effective_min_ms)
         IN  bvs_finish(st.cur, st.segs)

(***************************************************************************)
(* _ensure_angle_diversity                                                 *)
(***************************************************************************)
\* max(range(len(segments)), key=duration): the first index of maximal length
longest_index(segs) ==
    CHOOSE i \in 1..Len(segs) :
        /\ \A j \in 1..Len(segs) : SegDuration(segs[j]) <= SegDuration(segs[i])
        /\ \A j \in 1..(i - 1) : SegDuration(segs[j]) < SegDuration(segs[i])

mid_point_of(longest) == longest.start_ms + (SegDuration(longest) \div 2)

\* a slip in the third piece: it starts at mid_point instead of insert_end
split_longest_overlapping(longest, missing_id) ==
    LET mid_point == mid_point_of(longest)
        insert_end == Min2(mid_point + MIN_SEGMENT_DURATION_MS, longest.end_ms)
        first == IF mid_point > longest.start_ms
                 THEN << Seg(longest.start_ms, mid_point, longest.video_id) >>
                 ELSE << >>
        last == IF insert_end < longest.end_ms
                THEN << Seg(mid_point, longest.end_ms, longest.video_id) >>
                ELSE << >>
    IN  first \o << Seg(mid_point, insert_end, missing_id) >> \o last

\* a slip: the piece before the midpoint is dropped
split_longest_without_head(longest, missing_id) ==
    LET mid_point == mid_point_of(longest)
        insert_end == Min2(mid_point + MIN_SEGMENT_DURATION_MS, longest.end_ms)
        last == IF insert_end < longest.end_ms
                THEN << Seg(insert_end, longest.end_ms, longest.video_id) >>
                ELSE << >>
    IN  << Seg(mid_point, insert_end, missing_id) >> \o last

\* the pieces that replace the longest segment
split_longest(longest, missing_id) ==
    LET mid_point == mid_point_of(longest)
        insert_end == Min2(mid_point + MIN_SEGMENT_DURATION_MS, longest.end_ms)
        first == IF mid_point > longest.start_ms
                 THEN << Seg(longest.start_ms, mid_point, longest.video_id) >>
                 ELSE << >>
        last == IF insert_end < longest.end_ms
                THEN << Seg(insert_end, longest.end_ms, longest.video_id) >>
                ELSE << >>
    IN  first \o << Seg(mid_point, insert_end, missing_id) >> \o last

\* one iteration of "for missing_id in missing_videos"
diversity_insert(segs, missing_id) ==
    IF segs = << >> THEN segs
    ELSE
    LET longest_idx == longest_index(segs)
        longest == segs[longest_idx]
        seg_duration == longest.end_ms - longest.start_ms
    IN  IF seg_duration >= MIN_SEGMENT_DURATION_MS * 2
        THEN SubSeq(segs, 1, longest_idx - 1)
             \o split_longest(longest, missing_id)
             \o SubSeq(segs, longest_idx + 1, Len(segs))
        ELSE segs

\* missing_videos is a Python set of ids: its iteration order is not fixed,
\* so every order is a possible outcome.
RECURSIVE diversity_outcomes(_, _)
diversity_outcomes(segs, missing) ==
    IF missing = {} THEN { segs }
    ELSE UNION { diversity_outcomes(diversity_insert(segs, id), missing \ {id})
                 : id \in missing }

used_video_ids(segs) == { segs[i].video_id : i \in 1..Len(segs) }
all_video_ids(vs) == { vs[i].id : i \in 1..Len(vs) }

\* a slip: the loop over the missing cameras stops after the first one
_ensure_angle_diversity_first_only(segs, vs) ==
    IF segs = << >> \/ Len(vs) <= 1 THEN { segs }
    ELSE LET missing_videos == all_video_ids(vs) \ used_video_ids(segs)
         IN  IF missing_videos = {} THEN { segs }
             ELSE { diversity_insert(segs, id) : id \in missing_videos }

\* the set of lists _ensure_angle_diversity may return
_ensure_angle_diversity(segs, vs) ==
    IF segs = << >> \/ Len(vs) <= 1 THEN { segs }
    ELSE LET missing_videos == all_video_ids(vs) \ used_video_ids(segs)
         IN  IF missing_videos = {} THEN { segs }
             ELSE diversity_outcomes(segs, missing_videos)

(***************************************************************************)
(* Scene contexts and the search collaborator as generate_ad_slots sees    *)
(* them.  A search outcome is a failure (the call raises) or a list of     *)
(* hits [start_sec, end_sec, confidence]; confidence is kept in percent.   *)
(***************************************************************************)
Hit(a, b, c) == [start_sec |-> a, end_sec |-> b, confidence |-> c]
Outcome(f, hs) == [fail |-> f, hits |-> hs]
NoHits == Outcome(FALSE, << >>)
Raises == Outcome(TRUE, << >>)

\* a scene context; embedding << >> is a missing embedding, scene_type "None"
\* is scene_type None
ContextE(a, b, emb, i, t) ==
    [start_ms |-> a, end_ms |-> b, embedding |-> emb,
     action_intensity |-> i, scene_type |-> t]

Context(a, b, i, t) == ContextE(a, b, << >>, i, t)

\* get_scene_context_at_time returns None
NoContext == Context(-1, -1, 5, "None")

RECURSIVE first_context_at(_, _, _)
first_context_at(contexts, time_ms, i) ==
    IF i > Len(contexts) THEN NoContext
    ELSE IF contexts[i].start_ms <= time_ms /\ time_ms < contexts[i].end_ms
    THEN contexts[i]
    ELSE first_context_at(contexts, time_ms, i + 1)

get_scene_context_at_time(contexts, time_ms) ==
    first_context_at(contexts, time_ms, 1)

(***************************************************************************)
(* config.py: ad detection and switching profiles                          *)
(***************************************************************************)
AD_SCORE_THRESHOLD == 70 * Scale
AD_MIN_SPACING_MS == 45000
AD_MAX_PER_4MIN == 1
\* AD_PENALTY_KEY_MOMENT = 0.3, AD_PENALTY_SPEECH = 0.5, crowd energy 0.4: tenths
AD_PENALTY_KEY_MOMENT == 3
AD_PENALTY_SPEECH == 5
AD_PENALTY_CROWD == 4
AD_EDGE_MS == 10000
AD_STEP_MS == 5000
AD_SLOT_DURATION_MS == 4000
AD_MAX_SLOTS == 4

ad_block_scenes(prof) ==
    CASE prof = "sports" -> {"scoring_play"}
      [] prof = "ceremony" -> {"name_announcement"}
      [] prof = "performance" -> {"solo"}
      [] OTHER -> {}

ad_boost_scenes(prof) ==
    CASE prof = "sports" -> {"timeout"}
      [] prof = "ceremony" -> {"pause"}
      [] prof = "performance" -> {"break"}
      [] OTHER -> {}

(***************************************************************************)
(* generate_ad_slots                                                       *)
(***************************************************************************)
Abs(x) == IF x < 0 THEN -x ELSE x

\* hits of one result list whose confidence is above the floor, in ms
RECURSIVE confident_hits(_, _, _)
confident_hits(hits, floor, i) ==
    IF i > Len(hits) THEN << >>
    ELSE (IF hits[i].confidence > floor
          THEN << [start_ms |-> hits[i].start_sec * 1000,
                   end_ms |-> hits[i].end_sec * 1000] >>
          ELSE << >>)
         \o confident_hits(hits, floor, i + 1)

\* the five key queries run inside one try block: the first query that
\* raises ends the loop, the hits collected before it are kept
RECURSIVE find_key_moments(_, _)
find_key_moments(key_results, q) ==
    IF q > Len(key_results) THEN << >>
    ELSE IF key_results[q].fail THEN << >>
    ELSE confident_hits(key_results[q].hits, 70, 1)
         \o find_key_moments(key_results, q + 1)

find_speech_segments(speech_result) ==
    IF speech_result.fail THEN << >>
    ELSE confident_hits(speech_result.hits, 60, 1)

\* scene_contexts[:-1] -> context["end_ms"]
transition_points_of(contexts) ==
    [i \in 1..(Len(contexts) - 1) |-> contexts[i].end_ms]

\* the first transition point within 5 s decides: 20 within 2 s, else 10
RECURSIVE transition_score_at(_, _, _)
transition_score_at(transition_points, t_ms, i) ==
    IF i > Len(transition_points) THEN 0
    ELSE IF Abs(t_ms - transition_points[i]) < 2000 THEN 20
    ELSE IF Abs(t_ms - transition_points[i]) < 5000 THEN 10
    ELSE transition_score_at(transition_points, t_ms, i + 1)

covers(intervals, lo, t_ms, hi) ==
    \E i \in 1..Len(intervals) :
        intervals[i].start_ms - lo <= t_ms /\ t_ms <= intervals[i].end_ms + hi

\* a slip: the 5 s margin around the key moment is missing
near_key_moment_without_margin(key_moments, t_ms) == covers(key_moments, 0, t_ms, 0)

\* moment.start_ms - 5000 <= t_ms <= moment.end_ms + 5000 for some key moment
near_key_moment_at(key_moments, t_ms) == covers(key_moments, 5000, t_ms, 5000)

\* the score after the penalties, in thousandths of a point: the exact
\* product of the points and the factors 0.3, 0.5 and 0.4 that apply
penalised_score(points, near_key_moment, in_speech, high_energy) ==
    LET s1 == IF near_key_moment THEN (points * Scale * AD_PENALTY_KEY_MOMENT) \div 10
              ELSE points * Scale
        s2 == IF in_speech THEN (s1 * AD_PENALTY_SPEECH) \div 10 ELSE s1
    IN  IF high_energy THEN (s2 * AD_PENALTY_CROWD) \div 10 ELSE s2

\* the score after the penalties as the program holds it: the integer sum of
\* the points, then "score *= 0.3", "score *= 0.5" and "score *= 0.4" in
\* this order, each product rounded to a double
penalised_double(points, near_key_moment, in_speech, high_energy) ==
    LET d1 == IF near_key_moment
              THEN fl_mul(fl_of_ratio(points, 1), fl_of_ratio(AD_PENALTY_KEY_MOMENT, 10))
              ELSE fl_of_ratio(points, 1)
        d2 == IF in_speech THEN fl_mul(d1, fl_of_ratio(AD_PENALTY_SPEECH, 10)) ELSE d1
    IN  IF high_energy THEN fl_mul(d2, fl_of_ratio(AD_PENALTY_CROWD, 10)) ELSE d2

\* penalised_double minus the double nearest to penalised_score / 1000, in
\* units of 2^(-62): 32 x 0.3 x 0.5 is 4.8 and 40 x 0.3 x 0.4 is
\* 4.800000000000001
penalised_drift(points, near_key_moment, in_speech, high_energy) ==
    drift_of(fl_sum(penalised_double(points, near_key_moment, in_speech, high_energy),
                    fl_neg(score_double(penalised_score(points, near_key_moment,
                                                        in_speech, high_energy)))))

\* the drift of every score a candidate can have: the points are a whole
\* number from 0 to 100
AD_SCORE_DRIFT ==
    [points \in 0..100 |->
        [near_key_moment \in BOOLEAN |->
            [in_speech \in BOOLEAN |->
                [high_energy \in BOOLEAN |->
                    IF near_key_moment \/ high_energy
                    THEN penalised_drift(points, near_key_moment, in_speech, high_energy)
                    ELSE 0]]]]

\* a slot of 4000 ms at t with score sc thousandths, held exactly
AdSlot(t, sc) ==
    [timestamp_ms |-> t, score |-> sc, score_drift |-> 0,
     duration_ms |-> AD_SLOT_DURATION_MS]

\* the candidate at t_ms: its score in thousandths of a point, and in
\* score_drift what the double of the program differs from it
ad_candidate(t_ms, prof, contexts, key_moments, speech_segments) ==
    LET context == get_scene_context_at_time(contexts, t_ms)
        has_context == contexts # << >> /\ context # NoContext
        action_score ==
            IF ~has_context THEN 40
            ELSE IF context.scene_type \in ad_block_scenes(prof) THEN 0
            ELSE IF context.scene_type \in ad_boost_scenes(prof) THEN 40
            ELSE Max2(0, 40 - (context.action_intensity * 4))
        in_speech == covers(speech_segments, 0, t_ms, 0)
        audio_score == IF in_speech THEN 0 ELSE 20
        transition_score ==
            transition_score_at(transition_points_of(contexts), t_ms, 1)
        complexity_score == 10
        points == action_score + audio_score + transition_score + complexity_score
        near_key_moment == near_key_moment_at(key_moments, t_ms)
        high_energy == has_context /\ context.action_intensity >= 8
    IN  [AdSlot(t_ms, penalised_score(points, near_key_moment, in_speech, high_energy))
            EXCEPT !.score_drift =
                       AD_SCORE_DRIFT[points][near_key_moment][in_speech][high_energy]]

\* score of the candidate at t_ms, in thousandths of a point
ad_candidate_score(t_ms, prof, contexts, key_moments, speech_segments) ==
    ad_candidate(t_ms, prof, contexts, key_moments, speech_segments).score

\* a slip: range(0, end_ms, 5000), the first 10 s are not left out
candidate_times_from_zero(start_ms, end_ms) ==
    [k \in 1..((end_ms + AD_STEP_MS - 1) \div AD_STEP_MS) |-> (k - 1) * AD_STEP_MS]

\* range(start_ms, end_ms, 5000), in time order
candidate_times(start_ms, end_ms) ==
    [k \in 1..((end_ms - start_ms + AD_STEP_MS - 1) \div AD_STEP_MS)
        |-> start_ms + (k - 1) * AD_STEP_MS]

\* the scores of vals, each as [score, score_drift], from the highest down
RECURSIVE values_descending(_)
values_descending(vals) ==
    IF vals = {} THEN << >>
    ELSE LET m == CHOOSE v \in vals : \A w \in vals : ~held_less(v, w)
         IN  << m >> \o values_descending(vals \ {m})

RECURSIVE concat_by_score(_, _, _)
concat_by_score(slots, order, i) ==
    IF i > Len(order) THEN << >>
    ELSE LET v == order[i]
             same(x) == x.score = v.score /\ x.score_drift = v.score_drift
         IN  SelectSeq(slots, same) \o concat_by_score(slots, order, i + 1)

\* candidate_slots.sort(key=score, reverse=True): by the doubles, and
\* stable, so equal doubles stay in time order
sort_by_score_descending(slots) ==
    concat_by_score(slots,
                    values_descending({ [score |-> slots[i].score,
                                         score_drift |-> slots[i].score_drift] :
                                        i \in 1..Len(slots) }), 1)

RECURSIVE insert_by_timestamp(_, _)
insert_by_timestamp(sorted, x) ==
    IF sorted = << >> THEN << x >>
    ELSE IF x.timestamp_ms < Head(sorted).timestamp_ms THEN << x >> \o sorted
    ELSE << Head(sorted) >> \o insert_by_timestamp(Tail(sorted), x)

RECURSIVE sort_by_timestamp(_)
sort_by_timestamp(slots) ==
    IF slots = << >> THEN << >>
    ELSE insert_by_timestamp(sort_by_timestamp(SubSeq(slots, 1, Len(slots) - 1)),
                             slots[Len(slots)])

\* max(1, int((duration_ms / (4 * 60 * 1000)) * AD_MAX_PER_4MIN))
max_ads_of(dur) == Max2(1, (dur * AD_MAX_PER_4MIN) \div (4 * 60 * 1000))

\* a slip: the spacing is checked against the last accepted slot only
spaced_from_last(slot, selected_slots) ==
    selected_slots # << >> =>
        Abs(slot.timestamp_ms - selected_slots[Len(selected_slots)].timestamp_ms)
            >= AD_MIN_SPACING_MS

spaced_from_all(slot, selected_slots) ==
    \A i \in 1..Len(selected_slots) :
        Abs(slot.timestamp_ms - selected_slots[i].timestamp_ms) >= AD_MIN_SPACING_MS

\* a slip: the score is not compared with the threshold
select_step_without_threshold(acc, slot, dur) ==
    IF acc.stopped THEN acc
    ELSE IF spaced_from_all(slot, acc.selected_slots)
    THEN LET sel == Append(acc.selected_slots, slot)
         IN  [selected_slots |-> sel, stopped |-> Len(sel) >= max_ads_of(dur)]
    ELSE acc

\* body of the greedy loop "for slot in candidate_slots"; stopped = the loop
\* has reached its break
select_step(acc, slot, dur) ==
    IF acc.stopped THEN acc
    ELSE IF spaced_from_all(slot, acc.selected_slots)
    THEN LET sel == IF ~held_less(slot, AdSlot(0, AD_SCORE_THRESHOLD))
                    THEN Append(acc.selected_slots, slot)
                    ELSE acc.selected_slots
         IN  [selected_slots |-> sel, stopped |-> Len(sel) >= max_ads_of(dur)]
    ELSE acc

\* the loop over sorted[lo..hi], in order (split in halves to keep the
\* evaluation shallow; nothing happens after the break)
RECURSIVE select_loop(_, _, _, _, _)
select_loop(sorted, lo, hi, acc, dur) ==
    IF lo > hi THEN acc
    ELSE IF lo = hi THEN select_step(acc, sorted[lo], dur)
    ELSE LET mid == (lo + hi) \div 2
             left == select_loop(sorted, lo, mid, acc, dur)
         IN  IF left.stopped THEN left
             ELSE select_loop(sorted, mid + 1, hi, left, dur)

select_slots(sorted, dur) ==
    select_loop(sorted, 1, Len(sorted),
                [selected_slots |-> << >>, stopped |-> FALSE], dur).selected_slots

\* a slip: the list is returned without the [:4] cut
final_slots_uncut(selected_slots) == sort_by_timestamp(selected_slots)

\* selected_slots.sort(key=timestamp); return selected_slots[:4]
final_slots(selected_slots) ==
    LET chronological == sort_by_timestamp(selected_slots)
    IN  SubSeq(chronological, 1, Min2(AD_MAX_SLOTS, Len(chronological)))

\* the candidates of "for t_ms in range(start_ms, end_ms, 5000)", in time
\* order, each with its score after the penalties
candidate_slots(dur, prof, has_index, contexts, srch) ==
    LET start_ms == AD_EDGE_MS
        end_ms == dur - AD_EDGE_MS
    IN  IF end_ms <= start_ms THEN << >>
        ELSE
        LET key_moments == IF has_index THEN find_key_moments(srch.key_results, 1)
                           ELSE << >>
            speech_segments == IF has_index THEN find_speech_segments(srch.speech_result)
                               ELSE << >>
            times == candidate_times(start_ms, end_ms)
        IN  [k \in 1..Len(times) |->
                ad_candidate(times[k], prof, contexts, key_moments, speech_segments)]

\* the slots the greedy loop has accepted when it ends, in the order of
\* their acceptance
accepted_ad_slots(dur, prof, has_index, contexts, srch) ==
    select_slots(sort_by_score_descending(
                     candidate_slots(dur, prof, has_index, contexts, srch)), dur)

generate_ad_slots(dur, prof, has_index, contexts, srch) ==
    final_slots(accepted_ad_slots(dur, prof, has_index, contexts, srch))


(***************************************************************************)
(* Pass 1: score_angle_at_time, build_scene_contexts,                      *)
(* calculate_engagement_score, score_all_moments.                          *)
(*                                                                         *)
(* A camera is [id, angle_type, embeddings]; an embedding entry is         *)
(* [start_time, end_time, embedding] with times in whole seconds and the   *)
(* vector a tuple of integers (<< >> is a missing vector).  The vectors of *)
(* the model are unit vectors along an axis, so that the cosine similarity *)
(* is their dot product.                                                   *)
(***************************************************************************)
ROTATION_BONUS_BASE == 20 * Scale
ROTATION_PENALTY == 10 * Scale
SWITCH_INTERVAL_MS == 6000

Video(i, a, embs) == [id |-> i, angle_type |-> a, embeddings |-> embs]
Embedding(a, b, v) == [start_time |-> a, end_time |-> b, embedding |-> v]

\* SWITCHING_PROFILES.get(event_type, SWITCHING_PROFILES["ceremony"]), by name
switching_profile_of(et) ==
    IF et \in {"sports", "ceremony", "performance"} THEN et ELSE "ceremony"

\* profile.get(scene_type); "None" when the profile has no such rule
preferred_angle_of(prof, scene_type) ==
    CASE prof = "sports" /\ scene_type = "high_action" -> "closeup"
      [] prof = "sports" /\ scene_type = "ball_near_goal" -> "goal_angle"
      [] prof = "sports" /\ scene_type = "low_action" -> "crowd"
      [] prof = "ceremony" /\ scene_type = "name_called" -> "stage_closeup"
      [] prof = "ceremony" /\ scene_type = "walking" -> "wide"
      [] prof = "ceremony" /\ scene_type = "applause" -> "crowd"
      [] prof = "ceremony" /\ scene_type = "speech" -> "podium"
      [] prof = "performance" /\ scene_type = "solo" -> "closeup"
      [] prof = "performance" /\ scene_type = "full_band" -> "wide"
      [] prof = "performance" /\ scene_type = "crowd_singing" -> "crowd"
      [] OTHER -> "None"

\* profile.get("default", "wide"): "wide" in the sports profile, absent in
\* the other two
default_angle_of(prof) == "wide"

\* base_scores.get(angle_type, 25) * 0.25, in thousandths
base_score_of(angle_type) ==
    (CASE angle_type = "wide" -> 50
       [] angle_type = "closeup" -> 40
       [] angle_type = "crowd" -> 30
       [] angle_type = "goal_angle" -> 35
       [] angle_type = "stage" -> 45
       [] OTHER -> 25) * (Scale \div 4)

\* SPEAKER_SCORE_MULTIPLIERS.get(angle_type, 1.0), then the wide / crowd /
\* audience penalty; in tenths
speaker_multiplier_of(angle_type) ==
    IF angle_type \in {"wide", "crowd", "audience"} THEN 3
    ELSE CASE angle_type \in {"closeup", "podium", "stage_closeup"} -> 20
           [] angle_type = "medium" -> 15
           [] OTHER -> 10

\* the first entry covering time_ms (both ends included) gives the vector
RECURSIVE current_embedding_at(_, _, _)
current_embedding_at(embeddings, time_ms, i) ==
    IF i > Len(embeddings) THEN << >>
    ELSE IF embeddings[i].start_time * 1000 <= time_ms
            /\ time_ms <= embeddings[i].end_time * 1000
    THEN embeddings[i].embedding
    ELSE current_embedding_at(embeddings, time_ms, i + 1)

RECURSIVE dot_product(_, _, _)
dot_product(u, v, i) ==
    IF i > Len(u) THEN 0 ELSE u[i] * v[i] + dot_product(u, v, i + 1)

\* max(0, 1 - cosine(u, v)) * 50 in thousandths; cosine raises ValueError on
\* vectors of different length, and the score falls back to 15
similarity_score(u, v) ==
    IF Len(u) # Len(v) THEN 15 * Scale
    ELSE Max2(0, dot_product(u, v, 1)) * 50 * Scale

\* the similarity part of embedding_score: the cosine comparison when camera
\* and context both have a vector, nothing when the context has none, the
\* base credit of 15 when there is no context at all
embedding_similarity_of(current_embedding, scene_context) ==
    IF current_embedding # << >> /\ scene_context # NoContext
    THEN (IF scene_context.embedding # << >>
          THEN similarity_score(current_embedding, scene_context.embedding)
          ELSE 0)
    ELSE IF current_embedding # << >> THEN 15 * Scale
    ELSE 0

\* (base_score + profile_score + embedding_score) * 0.3 as the program
\* computes it: the sum is a multiple of 1/4 and held exactly, the product
\* with the double of 0.3 is rounded
speaker_penalty_double(sum) ==
    fl_mul(fl_of_ratio(sum \div (Scale \div 4), 4), fl_of_ratio(3, 10))

\* speaker_penalty_double minus the double nearest to the product in
\* thousandths, in units of 2^(-62): 15.5 x 0.3 is 4.6499999999999995 and
\* not the 4.65 that the double nearest to 4650 / 1000 prints as
speaker_penalty_drift(sum) ==
    drift_of(fl_sum(speaker_penalty_double(sum), fl_neg(score_double((sum * 3) \div 10))))

\* the score of a camera at a time, given the similarity part of its
\* embedding score; the score is [score, score_drift]
score_angle_with(video, time_ms, prof, scene_context, video_index, total_videos, et, similarity) ==
    LET angle_type == video.angle_type
        is_speech_event == et \in {"ceremony", "speech", "lecture"}
        has_context == scene_context # NoContext
        base_score == base_score_of(angle_type)
        profile_score ==
            IF angle_type = default_angle_of(prof) THEN 25 * Scale
            ELSE IF has_context /\ scene_context.scene_type # "None"
                    /\ preferred_angle_of(prof, scene_context.scene_type) = angle_type
            THEN 25 * Scale
            ELSE 0
        current_embedding == current_embedding_at(video.embeddings, time_ms, 1)
        intensity_boost ==
            IF scene_context.action_intensity >= 8
            THEN (CASE angle_type = "closeup" -> 10 * Scale
                    [] angle_type = "goal_angle" -> 8 * Scale
                    [] OTHER -> 0)
            ELSE IF scene_context.action_intensity <= 3
            THEN (CASE angle_type = "wide" -> 5 * Scale
                    [] angle_type = "crowd" -> 8 * Scale
                    [] OTHER -> 0)
            ELSE 0
        embedding_score ==
            similarity
            + (IF current_embedding # << >> /\ has_context THEN intensity_boost ELSE 0)
        speaker_multiplier ==
            IF is_speech_event /\ has_context
               /\ (scene_context.scene_type
                       \in {"speech", "name_called", "solo", "announcement"}
                   \/ scene_context.action_intensity <= 4)
            THEN speaker_multiplier_of(angle_type)
            ELSE 10
        rotation ==
            IF total_videos > 1 /\ ~is_speech_event
            THEN (IF (time_ms \div SWITCH_INTERVAL_MS) % total_videos = video_index
                  THEN ROTATION_BONUS_BASE ELSE -ROTATION_PENALTY)
            ELSE 0
        sum == base_score + profile_score + embedding_score + rotation
        total_score == (sum * speaker_multiplier) \div 10
        total_drift == IF speaker_multiplier = 3 THEN speaker_penalty_drift(sum) ELSE 0
    IN  \* min(total_score, 100)
        IF total_score > 100 * Scale THEN Score(100 * Scale, 0)
        ELSE IF total_score = 100 * Scale THEN Score(total_score, Min2(total_drift, 0))
        ELSE Score(total_score, total_drift)

score_angle_at_time(video, time_ms, prof, scene_context, video_index, total_videos, et) ==
    score_angle_with(video, time_ms, prof, scene_context, video_index, total_videos, et,
                     embedding_similarity_of(
                         current_embedding_at(video.embeddings, time_ms, 1),
                         scene_context))

\* the (scene_type, query) pairs of build_scene_contexts, by event type
scene_queries_of(et) ==
    CASE et = "sports" -> << "high_action", "ball_near_goal", "low_action", "celebration" >>
      [] et = "ceremony" -> << "name_called", "speech", "applause", "walking" >>
      [] et = "performance" -> << "solo", "full_band", "crowd_singing" >>
      [] OTHER -> << >>

\* all embeddings of all cameras, in camera order
RECURSIVE collect_embeddings(_, _)
collect_embeddings(vs, i) ==
    IF i > Len(vs) THEN << >>
    ELSE [k \in 1..Len(vs[i].embeddings) |->
             [start_ms |-> vs[i].embeddings[k].start_time * 1000,
              end_ms |-> vs[i].embeddings[k].end_time * 1000,
              embedding |-> vs[i].embeddings[k].embedding]]
         \o collect_embeddings(vs, i + 1)

\* all_embeddings.sort(key=start_ms): stable
RECURSIVE insert_by_start(_, _)
insert_by_start(sorted, x) ==
    IF sorted = << >> THEN << x >>
    ELSE IF x.start_ms < Head(sorted).start_ms THEN << x >> \o sorted
    ELSE << Head(sorted) >> \o insert_by_start(Tail(sorted), x)

RECURSIVE sort_by_start(_)
sort_by_start(embs) ==
    IF embs = << >> THEN << >>
    ELSE insert_by_start(sort_by_start(SubSeq(embs, 1, Len(embs) - 1)),
                         embs[Len(embs)])

\* scene_type_cache[(start_ms, end_ms)] = ...: a key already present keeps
\* its place in the dict and takes the new value
cache_put(cache, entry) ==
    IF \E i \in 1..Len(cache) :
          cache[i].start_ms = entry.start_ms /\ cache[i].end_ms = entry.end_ms
    THEN [i \in 1..Len(cache) |->
             IF cache[i].start_ms = entry.start_ms /\ cache[i].end_ms = entry.end_ms
             THEN entry ELSE cache[i]]
    ELSE Append(cache, entry)

\* "for result in results", from hit i on; the floor is 0.6
RECURSIVE cache_hits(_, _, _, _)
cache_hits(cache, scene_type, hits, i) ==
    IF i > Len(hits) THEN cache
    ELSE cache_hits(
             IF hits[i].confidence > 60
             THEN cache_put(cache, [start_ms |-> hits[i].start_sec * 1000,
                                    end_ms |-> hits[i].end_sec * 1000,
                                    scene_type |-> scene_type])
             ELSE cache,
             scene_type, hits, i + 1)

\* "for scene_type, query in scene_queries": each query has its own try, a
\* query that raises is skipped
RECURSIVE scene_type_cache_of(_, _, _, _)
scene_type_cache_of(cache, queries, scene_results, q) ==
    IF q > Len(queries) THEN cache
    ELSE scene_type_cache_of(
             IF scene_results[q].fail THEN cache
             ELSE cache_hits(cache, queries[q], scene_results[q].hits, 1),
             queries, scene_results, q + 1)

\* the first cache entry overlapping the embedding decides type and intensity
RECURSIVE context_of_embedding(_, _, _)
context_of_embedding(emb, cache, i) ==
    IF i > Len(cache)
    THEN ContextE(emb.start_ms, emb.end_ms, emb.embedding, 5, "None")
    ELSE IF \/ (emb.start_ms <= cache[i].start_ms /\ cache[i].start_ms < emb.end_ms)
            \/ (cache[i].start_ms <= emb.start_ms /\ emb.start_ms < cache[i].end_ms)
    THEN ContextE(emb.start_ms, emb.end_ms, emb.embedding,
                  CASE cache[i].scene_type \in {"high_action", "celebration", "solo"} -> 8
                    [] cache[i].scene_type \in {"low_action", "walking"} -> 3
                    [] OTHER -> 5,
                  cache[i].scene_type)
    ELSE context_of_embedding(emb, cache, i + 1)

build_scene_contexts(vs, has_index, et, scene_results) ==
    LET all_embeddings == sort_by_start(collect_embeddings(vs, 1))
        scene_type_cache ==
            IF has_index
            THEN scene_type_cache_of(<< >>, scene_queries_of(et), scene_results, 1)
            ELSE << >>
    IN  [k \in 1..Len(all_embeddings) |->
            context_of_embedding(all_embeddings[k], scene_type_cache, 1)]

calculate_engagement_score(scene_context) ==
    IF scene_context = NoContext THEN 50
    ELSE LET by_intensity == 50 + (scene_context.action_intensity - 5) * 8
             score ==
                 IF scene_context.scene_type
                       \in {"high_action", "scoring_play", "solo", "celebration",
                            "ball_near_goal"}
                 THEN by_intensity + 15
                 ELSE IF scene_context.scene_type
                            \in {"low_action", "pause", "timeout", "break", "walking"}
                 THEN by_intensity - 15
                 ELSE by_intensity
         IN  Max2(0, Min2(100, score))

\* number of values of range(0, duration_ms, 2000)
bucket_count_of(dur) ==
    IF dur <= 0 THEN 0 ELSE (dur + BUCKET_MS - 1) \div BUCKET_MS

\* one moment per bucket and camera, bucket by bucket
score_all_moments(vs, dur, prof, contexts, et) ==
    [k \in 1..(bucket_count_of(dur) * Len(vs)) |->
        LET t_ms == ((k - 1) \div Len(vs)) * BUCKET_MS
            video_idx == (k - 1) % Len(vs)
            scene_context == get_scene_context_at_time(contexts, t_ms)
        IN  ScoredMoment(t_ms, vs[video_idx + 1].id,
                   score_angle_at_time(vs[video_idx + 1], t_ms, prof, scene_context,
                                       video_idx, Len(vs), et),
                   calculate_engagement_score(scene_context))]

(***************************************************************************)
(* Pass 2: select_best_moments                                             *)
(***************************************************************************)
\* "if t not in by_time or m.score > by_time[t].score: by_time[t] = m"; the
\* dict keeps the times in the order they were first seen
by_time_put(by_time, m) ==
    IF \E i \in 1..Len(by_time) : by_time[i].time_ms = m.time_ms
    THEN [i \in 1..Len(by_time) |->
             IF by_time[i].time_ms = m.time_ms /\ held_less(by_time[i], m)
             THEN m ELSE by_time[i]]
    ELSE Append(by_time, m)

\* the loop over ms[lo..hi], in order (split in halves to keep the
\* evaluation shallow; the test on Len only orders the evaluation)
RECURSIVE by_time_loop(_, _, _, _)
by_time_loop(by_time, ms, lo, hi) ==
    IF lo > hi THEN by_time
    ELSE IF lo = hi THEN by_time_put(by_time, ms[lo])
    ELSE LET mid == (lo + hi) \div 2
             left == by_time_loop(by_time, ms, lo, mid)
         IN  IF Len(left) = 0 THEN left
             ELSE by_time_loop(left, ms, mid + 1, hi)

\* a slip: the engagement is left out of the key
quality_key_score_only(m) ==
    [exact |-> m.score * 6, score |-> m.score, score_drift |-> m.score_drift,
     engagement |-> 0]

\* the key of line 568, score * 0.6 + engagement * 0.4: the numbers it is
\* computed from and its exact value, times ten thousand
quality_key(m) ==
    [exact |-> m.score * 6 + m.engagement * Scale * 4,
     score |-> m.score, score_drift |-> m.score_drift, engagement |-> m.engagement]

\* the key as the program computes it, in doubles
quality_double(key) ==
    fl_add(fl_mul(held_double(key), SCORE_WEIGHT),
           fl_mul(fl_of_ratio(key.engagement, 1), ENGAGEMENT_WEIGHT))

\* key a < key b as the sort compares them.  The doubles are within 2^(-50)
\* of the exact values in proportion and two different exact values are at
\* least 1 / 10000 apart, so the exact values decide unless they are equal;
\* then the doubles decide (equal for the same score and engagement).
quality_less(a, b) ==
    IF a.exact # b.exact THEN a.exact < b.exact
    ELSE IF a.score = b.score /\ a.score_drift = b.score_drift
            /\ a.engagement = b.engagement THEN FALSE
    ELSE fl_cmp(quality_double(a), quality_double(b)) < 0

\* merge of two lists in descending order of the key; of two equal keys the
\* one of the first list comes first
RECURSIVE merge_by_quality(_, _)
merge_by_quality(a, b) ==
    IF a = << >> THEN b
    ELSE IF b = << >> THEN a
    ELSE IF quality_less(quality_key(a[1]), quality_key(b[1]))
    THEN << b[1] >> \o merge_by_quality(a, Tail(b))
    ELSE << a[1] >> \o merge_by_quality(Tail(a), b)

\* sorted(by_time.values(), key=quality, reverse=True): stable, equal keys
\* stay in dict order
RECURSIVE sort_by_quality_descending(_)
sort_by_quality_descending(ms) ==
    IF Len(ms) <= 1 THEN ms
    ELSE LET mid == Len(ms) \div 2
         IN  merge_by_quality(sort_by_quality_descending(SubSeq(ms, 1, mid)),
                              sort_by_quality_descending(SubSeq(ms, mid + 1, Len(ms))))

\* body of "for moment in sorted_moments"; stopped = the loop has reached
\* its break
greedy_step(acc, m, target_duration_ms, min_quality) ==
    IF acc.stopped THEN acc
    ELSE IF acc.total_duration >= target_duration_ms THEN [acc EXCEPT !.stopped = TRUE]
    ELSE IF held_less(m, Score(min_quality, 0)) THEN acc
    ELSE [acc EXCEPT !.selected = Append(@, m),
                     !.total_duration = @ + BUCKET_MS]

RECURSIVE greedy_loop(_, _, _, _, _, _)
greedy_loop(acc, sorted, lo, hi, target_duration_ms, min_quality) ==
    IF lo > hi THEN acc
    ELSE IF lo = hi THEN greedy_step(acc, sorted[lo], target_duration_ms, min_quality)
    ELSE LET mid == (lo + hi) \div 2
             left == greedy_loop(acc, sorted, lo, mid, target_duration_ms, min_quality)
         IN  IF left.stopped THEN left
             ELSE greedy_loop(left, sorted, mid + 1, hi, target_duration_ms, min_quality)

\* selected.sort(key=time_ms): merge sort, stable (split in halves to keep the evaluation shallow)
RECURSIVE merge_by_time(_, _)
merge_by_time(a, b) ==
    IF a = << >> THEN b
    ELSE IF b = << >> THEN a
    ELSE IF b[1].time_ms < a[1].time_ms
    THEN << b[1] >> \o merge_by_time(a, Tail(b))
    ELSE << a[1] >> \o merge_by_time(Tail(a), b)

RECURSIVE sort_by_time(_)
sort_by_time(ms) ==
    IF Len(ms) <= 1 THEN ms
    ELSE LET mid == Len(ms) \div 2
         IN  merge_by_time(sort_by_time(SubSeq(ms, 1, mid)),
                           sort_by_time(SubSeq(ms, mid + 1, Len(ms))))

select_best_moments(ms, target_duration_ms, min_quality) ==
    LET by_time == by_time_loop(<< >>, ms, 1, Len(ms))
        sorted_moments == sort_by_quality_descending(by_time)
        acc == greedy_loop([selected |-> << >>, total_duration |-> 0, stopped |-> FALSE],
                           sorted_moments, 1, Len(sorted_moments),
                           target_duration_ms, min_quality)
    IN  sort_by_time(acc.selected)

(***************************************************************************)
(* The search collaborator can fail.  Every call of search_videos in       *)
(* timeline.py sits inside "try: ... except Exception", so what a failing  *)
(* call does to the run depends on the handler around it.                  *)
(***************************************************************************)
\* a slip: the call is made outside any handler
propagates_unhandled(outcome, in_try) == outcome.fail

\* the exception of a failing call leaves the function unless a handler
\* around the call catches it
propagates(outcome, in_try) == outcome.fail /\ ~in_try

\* number of the first failing outcome among results[1..n], n + 1 if none
RECURSIVE first_failure(_, _, _)
first_failure(results, q, n) ==
    IF q > n THEN n + 1
    ELSE IF results[q].fail THEN q
    ELSE first_failure(results, q + 1, n)

\* calls made by a loop of n queries inside one try block
calls_in_one_try(results, n) == Min2(first_failure(results, 1, n), n)

\* build_scene_contexts: no call without embeddings or without an index,
\* else one call per scene query, each in its own try block
scene_search_calls(vs, has_index, et) ==
    IF collect_embeddings(vs, 1) = << >> \/ ~has_index THEN 0
    ELSE Len(scene_queries_of(et))

build_scene_contexts_raises(vs, has_index, et, scene_results) ==
    \E q \in 1..scene_search_calls(vs, has_index, et) :
        propagates(scene_results[q], TRUE)

\* generate_ad_slots: nothing is searched when the timeline is too short
ad_search_calls(dur, has_index, srch) ==
    IF dur - AD_EDGE_MS <= AD_EDGE_MS \/ ~has_index THEN 0
    ELSE calls_in_one_try(srch.key_results, Len(srch.key_results)) + 1

generate_ad_slots_raises(dur, has_index, srch) ==
    /\ ad_search_calls(dur, has_index, srch) > 0
    /\ \/ \E q \in 1..calls_in_one_try(srch.key_results, Len(srch.key_results)) :
              propagates(srch.key_results[q], TRUE)
       \/ propagates(srch.speech_result, TRUE)

(***************************************************************************)
(* SpecSegments: build_variable_segments consuming one selected moment per *)
(* step, then the angle-diversity post-process.  The selected moments are  *)
(* any bucket-aligned list with strictly increasing times.                 *)
(***************************************************************************)
ScoreValues == { 30 * Scale, 39 * Scale, 100 * Scale }
EngagementValues == { 50 }

Camera(i) == [id |-> i, angle_type |-> "wide", embeddings |-> << >>]
CameraList(n) == [i \in 1..n |-> Camera(i)]

NoSearch ==
    [scene |-> << >>, zoom_result |-> NoHits, key_results |-> << >>,
     speech_result |-> NoHits, chapter_results |-> << >>]

IdleRest ==
    /\ source_duration_ms = 0
    /\ max_duration_ms = 0
    /\ all_moments = << >>
    /\ selected_moments = << >>
    /\ duration_ms = 0
    /\ profile = "none"
    /\ index_id = FALSE
    /\ scene_contexts = << >>
    /\ search = NoSearch
    /\ ad_slots = << >>

InitSegments ==
    /\ IdleScore
    /\ IdleOutputs
    /\ IdleSync
    /\ pc = "loop"
    /\ event_type \in EventTypes
    /\ \E n \in 1..MaxCameras : videos = CameraList(n)
    /\ current_segment = NoSegment
    /\ segments = << >>
    /\ IdleRest

\* times the next selected moment may carry when the moments come from
\* select_best_moments: one moment per bucket of 2000 ms, buckets counted
\* from 0, some of them left out
NextTimes ==
    IF current_segment = NoSegment
    THEN { BUCKET_MS * g : g \in 0..MaxGap }
    ELSE { current_segment.end_ms + BUCKET_MS * g : g \in 0..MaxGap }

ConsumeMoment ==
    /\ pc = "loop"
    /\ \E t \in NextTimes, v \in 1..Len(videos),
          s \in ScoreValues, e \in EngagementValues :
          /\ t <= BUCKET_MS * (MaxBuckets - 1)
          /\ LET r == bvs_step(current_segment, segments, Moment(t, v, s, e),
                               min_segment_ms_of(event_type))
             IN  /\ current_segment' = r.cur
                 /\ segments' = r.segs
    /\ UNCHANGED << score_vars, out_vars, sync_vars, pc, event_type, videos, source_duration_ms, max_duration_ms,
                    all_moments, selected_moments, duration_ms, profile, index_id,
                    scene_contexts, search, ad_slots >>

FinishSegments ==
    /\ pc = "loop"
    /\ segments' = bvs_finish(current_segment, segments)
    /\ pc' = "built"
    /\ UNCHANGED << score_vars, out_vars, sync_vars, event_type, videos, source_duration_ms, max_duration_ms,
                    all_moments, selected_moments, current_segment,
                    duration_ms, profile, index_id, scene_contexts, search, ad_slots >>

EnsureDiversity ==
    /\ pc = "built"
    /\ segments' \in _ensure_angle_diversity(segments, videos)
    /\ pc' = "diverse"
    /\ UNCHANGED << score_vars, out_vars, sync_vars, event_type, videos, source_duration_ms, max_duration_ms,
                    all_moments, selected_moments, current_segment,
                    duration_ms, profile, index_id, scene_contexts, search, ad_slots >>

NextSegments == ConsumeMoment \/ FinishSegments \/ EnsureDiversity

SpecSegments == InitSegments /\ [][NextSegments]_vars

(***************************************************************************)
(* SpecTimes: build_variable_segments and _ensure_angle_diversity called   *)
(* on any list of moments with strictly increasing times, whether or not   *)
(* the times are the buckets of pass 2.  selected_moments holds the        *)
(* moments that the loop has taken so far.                                 *)
(***************************************************************************)
\* what the time of a moment may be ahead of the time of the moment before
TimeGaps == { 1000, 2000, 3000, 9000 }

TimedScoreValues == { 30 * Scale, 100 * Scale }

\* times the next moment of the list may carry
NextListTimes ==
    IF selected_moments = << >> THEN { 0, 1000 }
    ELSE { selected_moments[Len(selected_moments)].time_ms + g : g \in TimeGaps }

ConsumeListMoment ==
    /\ pc = "loop"
    /\ Len(selected_moments) < MaxListMoments
    /\ \E t \in NextListTimes, v \in 1..Len(videos),
          s \in TimedScoreValues, e \in EngagementValues :
          LET r == bvs_step(current_segment, segments, Moment(t, v, s, e),
                            min_segment_ms_of(event_type))
          IN  /\ selected_moments' = Append(selected_moments, Moment(t, v, s, e))
              /\ current_segment' = r.cur
              /\ segments' = r.segs
    /\ UNCHANGED << score_vars, out_vars, sync_vars, pc, event_type, videos, source_duration_ms, max_duration_ms,
                    all_moments, duration_ms, profile, index_id,
                    scene_contexts, search, ad_slots >>

NextTimed == ConsumeListMoment \/ FinishSegments \/ EnsureDiversity

SpecTimes == InitSegments /\ [][NextTimed]_vars

(***************************************************************************)
(* Properties of build_variable_segments and _ensure_angle_diversity       *)
(***************************************************************************)
WellOrdered(segs) ==
    /\ \A i \in 1..Len(segs) : segs[i].start_ms < segs[i].end_ms
    /\ \A i \in 1..(Len(segs) - 1) : segs[i].end_ms <= segs[i + 1].start_ms

StrictlyIncreasingTimes(ms) ==
    \A i \in 1..(Len(ms) - 1) : ms[i].time_ms < ms[i + 1].time_ms

\* every moment is at least one bucket after the moment before it, as the
\* moments of select_best_moments are
BucketSpaced(ms) ==
    \A i \in 1..(Len(ms) - 1) : ms[i + 1].time_ms - ms[i].time_ms >= BUCKET_MS

\* C2: for every list of selected moments with strictly increasing time_ms,
\* after build_variable_segments and _ensure_angle_diversity every segment
\* has start_ms < end_ms and ends no later than the next one starts.
C2_NoOverlap ==
    (pc = "diverse" /\ StrictlyIncreasingTimes(selected_moments))
        => WellOrdered(segments)

\* C2, for the lists in which every time_ms is at least 2000 ms after the
\* one before it: after build_variable_segments and _ensure_angle_diversity
\* every segment has start_ms < end_ms and ends no later than the next one
\* starts.
C2_NoOverlapWhenSpaced ==
    (pc = "diverse" /\ BucketSpaced(selected_moments)) => WellOrdered(segments)

\* three moments off the buckets of pass 2 and at least 2000 ms apart made
\* one long segment, and a slice for the camera no moment was on was
\* inserted in it
C2_Witness ==
    /\ pc = "diverse"
    /\ Len(selected_moments) = 3
    /\ BucketSpaced(selected_moments)
    /\ \E k \in 1..3 : selected_moments[k].time_ms % BUCKET_MS # 0
    /\ Len(segments) = 3
    /\ \E i \in 2..(Len(segments) - 1) :
          /\ SegDuration(segments[i]) = MIN_SEGMENT_DURATION_MS
          /\ segments[i - 1].end_ms = segments[i].start_ms
          /\ segments[i].end_ms = segments[i + 1].start_ms
          /\ \A j \in 1..Len(segments) :
                j # i => segments[j].video_id # segments[i].video_id

\* C4: no segment returned by build_variable_segments is longer than
\* MAX_SEGMENT_DURATION_MS.
C4_MaxDuration ==
    pc = "built" =>
        \A i \in 1..Len(segments) : SegDuration(segments[i]) <= MAX_SEGMENT_DURATION_MS

\* a step of the loop that finished a segment and started a new one
IsCut ==
    /\ pc = "loop" /\ pc' = "loop"
    /\ Len(segments') = Len(segments) + 1

\* a step of the loop that kept the current segment
IsAbsorb ==
    /\ pc = "loop" /\ pc' = "loop"
    /\ current_segment # NoSegment
    /\ current_segment' # current_segment
    /\ segments' = segments

\* the score s, as the double the program holds, is strictly greater than
\* 13/10 of the running average total_score / moment_count of cur, taken on
\* the double the program holds and without rounding
ExceedsHysteresis(cur, s) ==
    LET lhs == s * 10 * cur.moment_count
        rhs == 13 * cur.total_score
    IN  IF lhs # rhs THEN lhs > rhs
        ELSE fl_cmp(fl_scale(score_double(s), 10 * cur.moment_count),
                    fl_scale(total_score_double(cur), 13)) > 0

\* C5: a cut happens only when the current segment has reached the effective
\* minimum duration and the candidate's score is strictly greater than 1.3
\* times the running average total_score / moment_count; every other bucket
\* is absorbed into the current segment, which keeps its start and camera.
C5_CutOnlyWhenBetter ==
    [][ /\ IsCut =>
            /\ SegDuration(current_segment) >= min_segment_ms_of(event_type)
            /\ ExceedsHysteresis(current_segment, current_segment'.total_score)
            /\ current_segment'.moment_count = 1
        /\ IsAbsorb =>
            /\ current_segment'.start_ms = current_segment.start_ms
            /\ current_segment'.video_id = current_segment.video_id
            /\ current_segment'.end_ms > current_segment.end_ms
            /\ current_segment'.moment_count = current_segment.moment_count + 1
      ]_vars

\* a cut to another camera has just been made, and (in an earlier segment)
\* buckets were absorbed past the minimum duration
C5_Witness ==
    /\ pc = "loop"
    /\ Len(segments) >= 1
    /\ current_segment.moment_count = 1
    /\ current_segment.video_id # segments[Len(segments)].video_id
    /\ current_segment.start_ms = segments[Len(segments)].end_ms
    /\ SegDuration(segments[Len(segments)]) > min_segment_ms_of(event_type)

\* C6 as claimed: any two consecutive segments returned by
\* build_variable_segments are on different cameras.
C6_CutsChangeCamera ==
    pc = "built" =>
        \A i \in 1..(Len(segments) - 1) :
            segments[i].video_id # segments[i + 1].video_id

\* C6 as amended: two consecutive segments are on different cameras, or the
\* second does not start where the first ends (buckets were dropped between
\* them), or the first has reached MAX_SEGMENT_DURATION_MS.
C6_CutsChangeCameraOrJump ==
    pc = "built" =>
        \A i \in 1..(Len(segments) - 1) :
            \/ segments[i].video_id # segments[i + 1].video_id
            \/ segments[i + 1].start_ms # segments[i].end_ms
            \/ SegDuration(segments[i]) >= MAX_SEGMENT_DURATION_MS

\* a cut on the same camera (after a jump) and a cut between cameras
C6_Witness ==
    /\ pc = "built"
    /\ \E i \in 1..(Len(segments) - 1) :
          /\ segments[i].video_id = segments[i + 1].video_id
          /\ segments[i + 1].start_ms # segments[i].end_ms
    /\ \E i \in 1..(Len(segments) - 1) :
          /\ segments[i].video_id # segments[i + 1].video_id
          /\ segments[i + 1].start_ms = segments[i].end_ms


\* C23: for a camera that appears in no segment, the diversity post-process
\* splits the longest segment at its midpoint and inserts a slice for that
\* camera whose length is the event category's minimum segment duration,
\* provided the longest segment is at least twice that minimum; otherwise
\* the segment list is left unchanged (stated for one missing camera)
C23_SliceOfEventMinimum ==
    [][(/\ pc = "built"
        /\ pc' = "diverse"
        /\ segments # << >>
        /\ Cardinality(all_video_ids(videos) \ used_video_ids(segments)) = 1)
       => LET missing_id ==
                  CHOOSE id \in all_video_ids(videos) \ used_video_ids(segments) : TRUE
              longest == segments[longest_index(segments)]
              minimum == min_segment_ms_of(event_type)
          IN  IF SegDuration(longest) >= 2 * minimum
              THEN \E k \in 1..Len(segments') :
                      /\ segments'[k].video_id = missing_id
                      /\ segments'[k].start_ms = mid_point_of(longest)
                      /\ SegDuration(segments'[k]) = minimum
              ELSE segments' = segments]_vars


\* C28: the running average total_score / moment_count used in the
\* hysteresis comparison is the mean of the scores of the buckets absorbed
\* into the current segment, forced extensions included: every step that
\* absorbs a bucket adds that bucket's score to total_score
C28_RunningAverageIsMean ==
    [][IsAbsorb =>
           \E s \in ScoreValues :
               current_segment'.total_score = current_segment.total_score + s]_vars

(***************************************************************************)
(* SpecAds: one call of generate_ad_slots.  The caller supplies a          *)
(* duration, a profile, scene contexts and a search collaborator.          *)
(***************************************************************************)
\* twenty minutes and more: five ads are allowed, one more than is returned
LongAdDurations == { 20 * 60 * 1000, 21 * 60 * 1000 }

AdDurations ==
    { k * AD_STEP_MS : k \in 0..7 } \cup { 27000, 120000 }
    \cup { b * 4 * 60 * 1000 : b \in 1..MaxAdBlocks }
    \cup LongAdDurations

AdProfiles == { "sports", "performance", "none" }

\* scene contexts: contiguous 63-second windows over the duration, all of
\* medium intensity except at most one (for the long durations: none, or the
\* last but one, of low action)
WindowMs == 63 * 1000
WindowCount(dur) == (dur + WindowMs - 1) \div WindowMs

WindowVariants ==
    { << 3, "low_action" >>, << 8, "high_action" >>,
      << 5, "timeout" >>, << 8, "solo" >> }

Windows(dur, j, v) ==
    [i \in 1..WindowCount(dur) |->
        Context((i - 1) * WindowMs, i * WindowMs,
                IF i = j THEN v[1] ELSE 5,
                IF i = j THEN v[2] ELSE "None")]

ContextLists(dur) ==
    { << >> } \cup { Windows(dur, 0, << 5, "None" >>) }
    \cup { Windows(dur, j, v) : j \in 1..WindowCount(dur), v \in WindowVariants }

\* search_videos reports a confidence of 0.9, 0.6, 0.3 or 0.5
KeyHits == { Hit(30, 35, 90), Hit(100, 110, 90), Hit(250, 260, 60) }
SpeechHits == { Hit(60, 120, 90), Hit(200, 230, 60) }

\* outcomes of the five key-moment queries
KeyResultLists ==
    { [q \in 1..5 |-> NoHits] }
    \cup { [q \in 1..5 |-> IF q = 1 THEN Raises ELSE NoHits] }
    \cup { [q \in 1..5 |-> IF q = 2 THEN Outcome(FALSE, << h >>) ELSE NoHits] : h \in KeyHits }

SpeechResults ==
    { NoHits, Raises } \cup { Outcome(FALSE, << h >>) : h \in SpeechHits }

AdSearches ==
    [scene : { << >> }, zoom_result : { NoHits }, key_results : KeyResultLists,
     speech_result : SpeechResults, chapter_results : { << >> }]

IdleTimeline ==
    /\ event_type = "sports"
    /\ videos = << >>
    /\ source_duration_ms = 0
    /\ max_duration_ms = 0
    /\ all_moments = << >>
    /\ selected_moments = << >>
    /\ current_segment = NoSegment
    /\ segments = << >>

InitAds ==
    /\ IdleScore
    /\ IdleOutputs
    /\ IdleSync
    /\ pc = "ads"
    /\ duration_ms \in AdDurations
    /\ profile \in AdProfiles
    /\ index_id \in BOOLEAN
    /\ scene_contexts \in ContextLists(duration_ms)
    /\ duration_ms \in LongAdDurations =>
          scene_contexts \in { << >>, Windows(duration_ms, 0, << 5, "None" >>),
                               Windows(duration_ms, WindowCount(duration_ms) - 1,
                                       << 3, "low_action" >>) }
    /\ search \in AdSearches
    /\ index_id = FALSE =>
          /\ search.key_results = [q \in 1..5 |-> NoHits]
          /\ search.speech_result = NoHits
    /\ ad_slots = << >>
    /\ IdleTimeline

PlanAds ==
    /\ pc = "ads"
    /\ calls' = [calls EXCEPT
                    !.search = @ + ad_search_calls(duration_ms, index_id, search)]
    /\ IF generate_ad_slots_raises(duration_ms, index_id, search)
       THEN /\ pc' = "raised"
            /\ UNCHANGED ad_slots
       ELSE /\ pc' = "planned"
            /\ ad_slots' = generate_ad_slots(duration_ms, profile, index_id,
                                             scene_contexts, search)
    /\ UNCHANGED << score_vars, zooms, chapters, sync_vars, event_type, videos, source_duration_ms, max_duration_ms,
                    all_moments, selected_moments, current_segment, segments,
                    duration_ms, profile, index_id, scene_contexts, search >>

NextAds == PlanAds

SpecAds == InitAds /\ [][NextAds]_vars

(***************************************************************************)
(* Properties of generate_ad_slots                                         *)
(***************************************************************************)
\* C9: the returned slots are in strictly increasing timestamp_ms order and
\* any two of them are at least AD_MIN_SPACING_MS apart.
C9_SlotsOrderedAndSpaced ==
    pc = "planned" =>
        /\ \A i \in 1..(Len(ad_slots) - 1) :
              ad_slots[i].timestamp_ms < ad_slots[i + 1].timestamp_ms
        /\ \A i, j \in 1..Len(ad_slots) :
              i # j => Abs(ad_slots[i].timestamp_ms - ad_slots[j].timestamp_ms) >= 45000

\* two slots were returned, the later one with the higher score: the greedy
\* loop picked them against the time order
C9_Witness ==
    /\ pc = "planned"
    /\ Len(ad_slots) >= 2
    /\ ad_slots[1].score < ad_slots[2].score

\* C10: every returned slot lies in [10000, duration_ms - 10000], and no slot
\* is returned when duration_ms <= 20000.
C10_SlotsAwayFromEdges ==
    pc = "planned" =>
        /\ \A i \in 1..Len(ad_slots) :
              /\ ad_slots[i].timestamp_ms >= 10000
              /\ ad_slots[i].timestamp_ms <= duration_ms - 10000
        /\ duration_ms <= 20000 => ad_slots = << >>

\* a slot was returned for a duration just above 20 s: the window has one candidate
C10_Witness ==
    /\ pc = "planned"
    /\ duration_ms = 25000
    /\ Len(ad_slots) = 1
    /\ ad_slots[1].timestamp_ms = 10000

\* C11: generate_ad_slots never returns more than 4 slots, and never more
\* than max(1, floor(duration_ms / 240000)) slots.
C11_SlotCountCapped ==
    pc = "planned" =>
        /\ Len(ad_slots) <= 4
        /\ Len(ad_slots) <= Max2(1, duration_ms \div 240000)

\* five ads were allowed and four were returned; the cap of the duration is
\* met in another run by a duration of 8 minutes with its two slots
C11_Witness ==
    /\ pc = "planned"
    /\ duration_ms \div 240000 >= 5
    /\ Len(ad_slots) = 4

\* C12: every returned slot has a final score of at least AD_SCORE_THRESHOLD.
C12_SlotsMeetThreshold ==
    pc = "planned" =>
        \A i \in 1..Len(ad_slots) : ad_slots[i].score >= 70 * Scale

\* the key moments and speech segments generate_ad_slots has detected
detected_key_moments ==
    IF index_id THEN find_key_moments(search.key_results, 1) ELSE << >>

detected_speech_segments ==
    IF index_id THEN find_speech_segments(search.speech_result) ELSE << >>

\* candidate times of the run that lie within 5000 ms of a detected key moment
penalised_times ==
    LET times == candidate_times(AD_EDGE_MS, duration_ms - AD_EDGE_MS)
    IN  { times[j] : j \in { j \in 1..Len(times) :
              \E k \in 1..Len(detected_key_moments) :
                  /\ detected_key_moments[k].start_ms - 5000 <= times[j]
                  /\ times[j] <= detected_key_moments[k].end_ms + 5000 } }

\* slots were returned although some candidates carried a penalty: one inside
\* a speech segment and one next to a key moment
C12_Witness ==
    /\ pc = "planned"
    /\ ad_slots # << >>
    /\ penalised_times # {}
    /\ detected_speech_segments # << >>

\* C13: a candidate within 5000 ms of a detected key moment has its score
\* multiplied by 0.3 and is never returned.
C13_KeyMomentsExcluded ==
    pc = "planned" =>
        /\ \A i \in 1..Len(ad_slots) : ad_slots[i].timestamp_ms \notin penalised_times
        /\ \A t \in penalised_times :
              ad_candidate_score(t, profile, scene_contexts, detected_key_moments,
                                 detected_speech_segments)
              = (ad_candidate_score(t, profile, scene_contexts, << >>,
                                    detected_speech_segments) * 3) \div 10

\* a candidate exactly 5000 ms after the end of a key moment was left out,
\* and its neighbour 5000 ms further on was returned
C13_Witness ==
    /\ pc = "planned"
    /\ \E k \in 1..Len(detected_key_moments) :
          /\ detected_key_moments[k].end_ms + 5000 \in penalised_times
          /\ \E i \in 1..Len(ad_slots) :
                ad_slots[i].timestamp_ms = detected_key_moments[k].end_ms + 10000


\* C30: when the greedy selection accepts more than AD_MAX_SLOTS slots, no
\* accepted slot dropped by the final cap has a higher score than a slot that
\* is returned
C30_BestAcceptedReturned ==
    pc = "planned" =>
        LET accepted == accepted_ad_slots(duration_ms, profile, index_id,
                                          scene_contexts, search)
        IN  Len(accepted) > AD_MAX_SLOTS =>
                \A i \in 1..Len(accepted), j \in 1..Len(ad_slots) :
                    (\A k \in 1..Len(ad_slots) : ad_slots[k] # accepted[i])
                        => accepted[i].score <= ad_slots[j].score

(***************************************************************************)
(* generate_zoom_moments                                                   *)
(***************************************************************************)
ZOOM_MIN_SPACING_SEC == 10
\* ZOOM_FACTOR_HIGH = 2.5 and ZOOM_FACTOR_MED = 1.8, in tenths
ZOOM_FACTOR_HIGH == 25
ZOOM_FACTOR_MED == 18
ZOOM_MAX_DURATION_MS == 3000

Zoom(s, d, f) == [start_ms |-> s, duration_ms |-> d, zoom_factor |-> f]

\* a slip: the distance to the last zoom is taken on either side
zoom_step_either_side(acc, moment) ==
    LET time_ms == moment.start_sec * 1000
    IN  IF Abs(time_ms - acc.last_zoom_time) >= ZOOM_MIN_SPACING_SEC * 1000
        THEN [zooms |-> Append(acc.zooms,
                               Zoom(time_ms,
                                    Min2(ZOOM_MAX_DURATION_MS,
                                         (moment.end_sec - moment.start_sec) * 1000),
                                    IF moment.confidence > 80 THEN ZOOM_FACTOR_HIGH
                                    ELSE ZOOM_FACTOR_MED)),
              last_zoom_time |-> time_ms]
        ELSE acc

\* body of "for moment in results"
zoom_step(acc, moment) ==
    LET time_ms == moment.start_sec * 1000
    IN  IF time_ms - acc.last_zoom_time >= ZOOM_MIN_SPACING_SEC * 1000
        THEN [zooms |-> Append(acc.zooms,
                               Zoom(time_ms,
                                    Min2(ZOOM_MAX_DURATION_MS,
                                         (moment.end_sec - moment.start_sec) * 1000),
                                    IF moment.confidence > 80 THEN ZOOM_FACTOR_HIGH
                                    ELSE ZOOM_FACTOR_MED)),
              last_zoom_time |-> time_ms]
        ELSE acc

RECURSIVE zoom_loop(_, _, _)
zoom_loop(acc, hits, i) ==
    IF i > Len(hits) THEN acc
    ELSE zoom_loop(zoom_step(acc, hits[i]), hits, i + 1)

\* one query inside one try block; the timeline's duration is not used
generate_zoom_moments(dur, has_index, zoom_result) ==
    IF has_index /\ ~zoom_result.fail
    THEN zoom_loop([zooms |-> << >>, last_zoom_time |-> -ZOOM_MIN_SPACING_SEC * 1000],
                   zoom_result.hits, 1).zooms
    ELSE << >>

zoom_search_calls(has_index) == IF has_index THEN 1 ELSE 0

generate_zoom_moments_raises(has_index, zoom_result) ==
    has_index /\ propagates(zoom_result, TRUE)

(***************************************************************************)
(* generate_chapters                                                       *)
(***************************************************************************)
CHAPTER_MIN_SPACING_MS == 60000

Chapter(t, title, type) == [timestamp_ms |-> t, title |-> title, type |-> type]

StartChapter == Chapter(0, "Start", "section")

\* queries.get(event_type, ["highlight"])
chapter_queries_of(et) ==
    CASE et = "sports" -> << "goal", "halftime", "celebration" >>
      [] et = "ceremony" -> << "speech", "award presentation", "name called" >>
      [] et = "performance" -> << "solo", "song change", "finale" >>
      [] OTHER -> << "highlight" >>

\* query.title()
title_of(query) ==
    CASE query = "goal" -> "Goal"
      [] query = "halftime" -> "Halftime"
      [] query = "celebration" -> "Celebration"
      [] query = "speech" -> "Speech"
      [] query = "award presentation" -> "Award Presentation"
      [] query = "name called" -> "Name Called"
      [] query = "solo" -> "Solo"
      [] query = "song change" -> "Song Change"
      [] query = "finale" -> "Finale"
      [] query = "highlight" -> "Highlight"

\* body of "for moment in results": more than a minute from every chapter
chapter_step(chs, moment, query) ==
    LET time_ms == moment.start_sec * 1000
    IN  IF \A i \in 1..Len(chs) :
              Abs(time_ms - chs[i].timestamp_ms) > CHAPTER_MIN_SPACING_MS
        THEN Append(chs, Chapter(time_ms, title_of(query), "highlight"))
        ELSE chs

RECURSIVE chapter_hits(_, _, _, _)
chapter_hits(chs, query, hits, i) ==
    IF i > Len(hits) THEN chs
    ELSE chapter_hits(chapter_step(chs, hits[i], query), query, hits, i + 1)

\* "for query in queries" inside one try block: the first query that raises
\* ends the loop, the chapters added before it are kept
RECURSIVE chapter_queries_loop(_, _, _, _)
chapter_queries_loop(chs, queries, chapter_results, q) ==
    IF q > Len(queries) THEN chs
    ELSE IF chapter_results[q].fail THEN chs
    ELSE chapter_queries_loop(
             chapter_hits(chs, queries[q], chapter_results[q].hits, 1),
             queries, chapter_results, q + 1)

\* chapters.sort(key=timestamp_ms): stable
RECURSIVE insert_chapter(_, _)
insert_chapter(sorted, c) ==
    IF sorted = << >> THEN << c >>
    ELSE IF c.timestamp_ms < Head(sorted).timestamp_ms THEN << c >> \o sorted
    ELSE << Head(sorted) >> \o insert_chapter(Tail(sorted), c)

RECURSIVE sort_chapters(_)
sort_chapters(chs) ==
    IF chs = << >> THEN << >>
    ELSE insert_chapter(sort_chapters(SubSeq(chs, 1, Len(chs) - 1)), chs[Len(chs)])

\* the timeline's duration is not used
generate_chapters(dur, et, has_index, chapter_results) ==
    sort_chapters(IF has_index
                  THEN chapter_queries_loop(<< StartChapter >>, chapter_queries_of(et),
                                            chapter_results, 1)
                  ELSE << StartChapter >>)

chapter_search_calls(et, has_index, chapter_results) ==
    IF has_index THEN calls_in_one_try(chapter_results, Len(chapter_queries_of(et)))
    ELSE 0

generate_chapters_raises(et, has_index, chapter_results) ==
    \E q \in 1..chapter_search_calls(et, has_index, chapter_results) :
        propagates(chapter_results[q], TRUE)

\* a slip: the early return goes through generate_chapters
empty_timeline_with_start ==
    [segments |-> << >>, zooms |-> << >>, ad_slots |-> << >>,
     chapters |-> << StartChapter >>]

\* {"segments": [], "zooms": [], "ad_slots": [], "chapters": []}
empty_timeline ==
    [segments |-> << >>, zooms |-> << >>, ad_slots |-> << >>, chapters |-> << >>]

(***************************************************************************)
(* music_sync.py: align_cuts_to_beats, which the worker applies to the     *)
(* segments of the timeline generate_timeline has returned when the event  *)
(* has music with beats.  The beat times are floats; the model keeps a     *)
(* beat as a whole number of half milliseconds, which a double holds       *)
(* exactly, so that int() has a fraction to cut.                           *)
(***************************************************************************)
MUSIC_BEAT_SYNC_TOLERANCE_MS == 200

\* a beat time of 1 ms, in the unit of the beat times
BeatScale == 2

\* distances = np.abs(beat_array - start_ms), for one beat
beat_distance(beat, start_ms) == Abs(beat - start_ms * BeatScale)

\* np.argmin(distances): the first of the beats at the least distance
nearest_idx(beat_times_ms, start_ms) ==
    CHOOSE i \in 1..Len(beat_times_ms) :
        /\ \A j \in 1..Len(beat_times_ms) :
              beat_distance(beat_times_ms[i], start_ms)
                  <= beat_distance(beat_times_ms[j], start_ms)
        /\ \A j \in 1..(i - 1) :
              beat_distance(beat_times_ms[j], start_ms)
                  > beat_distance(beat_times_ms[i], start_ms)

\* int(nearest_beat): the beat time in whole milliseconds, rounded towards
\* zero, so that a beat at -0.5 ms gives 0 and not -1
int_of_beat(beat) ==
    IF beat >= 0 THEN beat \div BeatScale ELSE -((-beat) \div BeatScale)

\* body of "for segment in timeline_segments": the copy of the segment with
\* start_ms = int(nearest_beat) if the nearest beat is within the tolerance,
\* and the key beat_synced; end_ms is left as it is
snap_to_beat(segment, beat_times_ms) ==
    LET nearest_beat == beat_times_ms[nearest_idx(beat_times_ms, segment.start_ms)]
        snap == beat_distance(nearest_beat, segment.start_ms)
                    <= MUSIC_BEAT_SYNC_TOLERANCE_MS * BeatScale
    IN  [f \in DOMAIN segment \cup { "beat_synced" } |->
            IF f = "beat_synced" THEN snap
            ELSE IF f = "start_ms" /\ snap THEN int_of_beat(nearest_beat)
            ELSE segment[f]]

\* "if not beat_times_ms: return timeline_segments"
align_cuts_to_beats(timeline_segments, beat_times_ms) ==
    IF beat_times_ms = << >> THEN timeline_segments
    ELSE [i \in 1..Len(timeline_segments) |->
             snap_to_beat(timeline_segments[i], beat_times_ms)]

(***************************************************************************)
(* Spec: one call of generate_timeline, stage by stage.  The caller gives  *)
(* the cameras, the event type, the index id and the optional maximum      *)
(* duration; the source duration is what get_video_duration_ms reports for *)
(* the first camera, and the search outcomes are what search_videos gives. *)
(***************************************************************************)
\* min(max_duration_ms or MAX_TOTAL_DURATION_MS, source_duration_ms)
target_duration_ms_of(max_ms, source_ms) ==
    Min2(IF max_ms # 0 THEN max_ms ELSE MAX_TOTAL_DURATION_MS, source_ms)

RECURSIVE sum_of_durations(_, _)
sum_of_durations(segs, i) ==
    IF i > Len(segs) THEN 0
    ELSE SegDuration(segs[i]) + sum_of_durations(segs, i + 1)

\* sum(s["end_ms"] - s["start_ms"] for s in segments) if segments else 0
total_duration_ms_of(segs) == sum_of_durations(segs, 1)

TimelineAngles == { "wide", "closeup", "other" }

AxisX == << 1, 0 >>
AxisY == << 0, 1 >>

\* embeddings of the first camera and of the second; further cameras have none
FirstEmbeddings ==
    { << >>, << Embedding(0, 4, AxisX) >>, << Embedding(4, 8, AxisX) >> }
OtherEmbeddings == { << >>, << Embedding(0, 8, AxisY) >> }

RECURSIVE CameraLists(_)
CameraLists(n) ==
    IF n = 0 THEN { << >> }
    ELSE { Append(vs, Video(n, a, embs)) :
               vs \in CameraLists(n - 1), a \in TimelineAngles,
               embs \in IF n = 1 THEN FirstEmbeddings
                        ELSE IF n = 2 THEN OtherEmbeddings
                        ELSE { << >> } }

SourceDurations ==
    { BUCKET_MS * k : k \in 0..MaxSourceBuckets } \cup { 1000, 5000, 9000 }

MaxDurations == { 0, 6000 }

QuietResults(n) == [q \in 1..n |-> NoHits]

\* nothing is found and nothing fails
QuietSearch ==
    [scene |-> QuietResults(4), zoom_result |-> NoHits, key_results |-> QuietResults(5),
     speech_result |-> NoHits, chapter_results |-> QuietResults(3)]

\* the first query of every function fails; later queries would have hits
FailingSearch ==
    [scene |-> [q \in 1..4 |-> IF q = 1 THEN Raises ELSE NoHits],
     zoom_result |-> Raises,
     key_results |-> [q \in 1..5 |-> IF q = 1 THEN Raises
                                     ELSE IF q = 2 THEN Outcome(FALSE, << Hit(11, 12, 90) >>)
                                     ELSE NoHits],
     speech_result |-> Raises,
     chapter_results |-> [q \in 1..3 |-> IF q = 1 THEN Raises
                                         ELSE IF q = 2
                                         THEN Outcome(FALSE, << Hit(120, 125, 90) >>)
                                         ELSE NoHits]]

\* every query answers
FoundSearch ==
    [scene |-> [q \in 1..4 |-> IF q = 1 THEN Outcome(FALSE, << Hit(0, 4, 90) >>)
                               ELSE NoHits],
     zoom_result |-> Outcome(FALSE, << Hit(1, 3, 90), Hit(5, 6, 60), Hit(12, 20, 60) >>),
     key_results |-> QuietResults(5),
     speech_result |-> NoHits,
     chapter_results |-> [q \in 1..3 |->
                             IF q = 1
                             THEN Outcome(FALSE, << Hit(90, 95, 90), Hit(100, 105, 60) >>)
                             ELSE IF q = 2 THEN NoHits
                             ELSE Outcome(FALSE, << Hit(30, 31, 60), Hit(200, 210, 30) >>)]]

\* a later query fails after an earlier one answered
MixedSearch ==
    [scene |-> [q \in 1..4 |-> IF q = 3 THEN Outcome(FALSE, << Hit(2, 6, 90) >>)
                               ELSE IF q = 4 THEN Raises ELSE NoHits],
     zoom_result |-> NoHits,
     key_results |-> [q \in 1..5 |-> IF q = 2 THEN Raises ELSE NoHits],
     speech_result |-> NoHits,
     chapter_results |-> [q \in 1..3 |-> IF q = 1
                                         THEN Outcome(FALSE, << Hit(90, 95, 90) >>)
                                         ELSE IF q = 2 THEN Raises
                                         ELSE Outcome(FALSE, << Hit(300, 301, 90) >>)]]

TimelineSearches == { QuietSearch, FailingSearch, FoundSearch, MixedSearch }

\* the categories a caller passes: the five of the signature and one outside
\* them, which nothing in generate_timeline checks
EventInputs == EventTypes \cup { "wedding" }

Init ==
    /\ IdleScore
    /\ IdleSync
    /\ pc = "start"
    /\ event_type \in EventInputs
    /\ event_type \notin EventTypes => max_duration_ms = 0
    /\ \E n \in 0..MaxCameras : videos \in CameraLists(n)
    /\ source_duration_ms \in SourceDurations
    /\ max_duration_ms \in MaxDurations
    /\ index_id \in BOOLEAN
    /\ search \in TimelineSearches
    /\ index_id = FALSE => search = QuietSearch
    /\ all_moments = << >>
    /\ selected_moments = << >>
    /\ current_segment = NoSegment
    /\ segments = << >>
    /\ duration_ms = 0
    /\ profile = "none"
    /\ scene_contexts = << >>
    /\ ad_slots = << >>
    /\ zooms = << >>
    /\ chapters = << >>
    /\ calls = NoCalls

\* "if not videos: return" with all four lists empty, before the duration of
\* any media is asked for
ReturnEmpty ==
    /\ pc = "start"
    /\ videos = << >>
    /\ profile' = switching_profile_of(event_type)
    /\ segments' = empty_timeline.segments
    /\ zooms' = empty_timeline.zooms
    /\ ad_slots' = empty_timeline.ad_slots
    /\ chapters' = empty_timeline.chapters
    /\ pc' = "done"
    /\ UNCHANGED << score_vars, calls, sync_vars, event_type, videos, source_duration_ms,
                    max_duration_ms, all_moments, selected_moments, current_segment,
                    duration_ms, index_id, scene_contexts, search >>

\* get_video_duration_ms(videos[0]["path"]), then build_scene_contexts
BuildSceneContexts ==
    /\ pc = "start"
    /\ videos # << >>
    /\ profile' = switching_profile_of(event_type)
    /\ calls' = [duration |-> calls.duration + 1,
                 search |-> calls.search
                            + scene_search_calls(videos, index_id, event_type)]
    /\ IF build_scene_contexts_raises(videos, index_id, event_type, search.scene)
       THEN /\ pc' = "raised"
            /\ UNCHANGED scene_contexts
       ELSE /\ pc' = "contexts"
            /\ scene_contexts' = build_scene_contexts(videos, index_id, event_type,
                                                      search.scene)
    /\ UNCHANGED << score_vars, zooms, chapters, sync_vars, event_type, videos, source_duration_ms,
                    max_duration_ms, all_moments, selected_moments, current_segment,
                    segments, duration_ms, index_id, search, ad_slots >>

ScoreAllMoments ==
    /\ pc = "contexts"
    /\ all_moments' = score_all_moments(videos, source_duration_ms, profile,
                                        scene_contexts, event_type)
    /\ pc' = "scored"
    /\ UNCHANGED << score_vars, out_vars, sync_vars, event_type, videos, source_duration_ms, max_duration_ms,
                    selected_moments, current_segment, segments,
                    duration_ms, profile, index_id, scene_contexts, search, ad_slots >>

SelectBestMoments ==
    /\ pc = "scored"
    /\ selected_moments' =
           select_best_moments(all_moments,
                               target_duration_ms_of(max_duration_ms, source_duration_ms),
                               MIN_SEGMENT_QUALITY_SCORE)
    /\ pc' = "selected"
    /\ UNCHANGED << score_vars, out_vars, sync_vars, event_type, videos, source_duration_ms, max_duration_ms,
                    all_moments, current_segment, segments,
                    duration_ms, profile, index_id, scene_contexts, search, ad_slots >>

BuildVariableSegments ==
    /\ pc = "selected"
    /\ segments' = build_variable_segments(selected_moments, event_type,
                                           min_segment_ms_of(event_type))
    /\ pc' = "built"
    /\ UNCHANGED << score_vars, out_vars, sync_vars, event_type, videos, source_duration_ms, max_duration_ms,
                    all_moments, selected_moments, current_segment,
                    duration_ms, profile, index_id, scene_contexts, search, ad_slots >>

\* total_duration_ms and the zooms
PlanZooms ==
    /\ pc = "diverse"
    /\ duration_ms' = total_duration_ms_of(segments)
    /\ calls' = [calls EXCEPT !.search = @ + zoom_search_calls(index_id)]
    /\ IF generate_zoom_moments_raises(index_id, search.zoom_result)
       THEN /\ pc' = "raised"
            /\ UNCHANGED zooms
       ELSE /\ pc' = "zoomed"
            /\ zooms' = generate_zoom_moments(total_duration_ms_of(segments), index_id,
                                              search.zoom_result)
    /\ UNCHANGED << score_vars, chapters, sync_vars, event_type, videos, source_duration_ms,
                    max_duration_ms, all_moments, selected_moments, current_segment,
                    segments, profile, index_id, scene_contexts, search, ad_slots >>

\* the ad slots planned on total_duration_ms
PlanTimelineAds ==
    /\ pc = "zoomed"
    /\ calls' = [calls EXCEPT
                    !.search = @ + ad_search_calls(duration_ms, index_id, search)]
    /\ IF generate_ad_slots_raises(duration_ms, index_id, search)
       THEN /\ pc' = "raised"
            /\ UNCHANGED ad_slots
       ELSE /\ pc' = "adverts"
            /\ ad_slots' = generate_ad_slots(duration_ms, profile, index_id,
                                             scene_contexts, search)
    /\ UNCHANGED << score_vars, zooms, chapters, sync_vars, event_type, videos, source_duration_ms,
                    max_duration_ms, all_moments, selected_moments, current_segment,
                    segments, duration_ms, profile, index_id, scene_contexts, search >>

\* the chapters, and the return of the timeline
PlanChapters ==
    /\ pc = "adverts"
    /\ calls' = [calls EXCEPT
                    !.search = @ + chapter_search_calls(event_type, index_id,
                                                        search.chapter_results)]
    /\ IF generate_chapters_raises(event_type, index_id, search.chapter_results)
       THEN /\ pc' = "raised"
            /\ UNCHANGED chapters
       ELSE /\ pc' = "done"
            /\ chapters' = generate_chapters(duration_ms, event_type, index_id,
                                             search.chapter_results)
    /\ UNCHANGED << score_vars, zooms, sync_vars, event_type, videos, source_duration_ms,
                    max_duration_ms, all_moments, selected_moments, current_segment,
                    segments, duration_ms, profile, index_id, scene_contexts, search,
                    ad_slots >>

\* beat times of the event's music, in half milliseconds; << >> stands for
\* an event without music or without beats
BeatTimeLists ==
    { << >>, << 300, 19800 >>, << 7601, 8399 >>, << 8401, 7600 >>, << 12000 >>,
      << -1 >>, << -3, 8001 >> }

\* worker_optimized.py: timeline["segments"] = align_cuts_to_beats(...) on the
\* timeline that generate_timeline has returned, before it is validated,
\* stored and rendered
ApplyBeatSync ==
    /\ pc = "done"
    /\ \E beat_times \in BeatTimeLists :
          segments' = IF beat_times # << >>
                      THEN align_cuts_to_beats(segments, beat_times)
                      ELSE segments
    /\ pc' = "stored"
    /\ UNCHANGED << score_vars, out_vars, sync_vars, event_type, videos, source_duration_ms,
                    max_duration_ms, all_moments, selected_moments, current_segment,
                    duration_ms, profile, index_id, scene_contexts, search, ad_slots >>

Next ==
    \/ ReturnEmpty
    \/ BuildSceneContexts
    \/ ScoreAllMoments
    \/ SelectBestMoments
    \/ BuildVariableSegments
    \/ EnsureDiversity
    \/ PlanZooms
    \/ PlanTimelineAds
    \/ PlanChapters
    \/ ApplyBeatSync

Spec == Init /\ [][Next]_vars

(***************************************************************************)
(* Properties of generate_timeline                                         *)
(***************************************************************************)
\* C1: for every input with at least one camera the returned segments cover
\* exactly [0, 2000 * accepted buckets): the first starts at 0, each later
\* one starts where the one before ends, the last ends at 2000 ms times the
\* number of buckets accepted by pass 2.
C1_SegmentsPartition ==
    (pc = "done" /\ videos # << >>) =>
        IF segments = << >> THEN selected_moments = << >>
        ELSE /\ segments[1].start_ms = 0
             /\ \A i \in 1..(Len(segments) - 1) :
                   segments[i + 1].start_ms = segments[i].end_ms
             /\ segments[Len(segments)].end_ms = BUCKET_MS * Len(selected_moments)

\* C3: in the returned list every segment is at least as long as the minimum
\* of the event category, unless it is the only segment.
C3_MinimumDuration ==
    (pc = "done" /\ Len(segments) > 1) =>
        \A i \in 1..Len(segments) :
            SegDuration(segments[i]) >= min_segment_ms_of(event_type)

\* C8: with exactly one camera and a source duration above 0 the result is
\* one segment from 0 to the target duration.
C8_SingleCamera ==
    (pc = "done" /\ Len(videos) = 1 /\ source_duration_ms > 0) =>
        /\ Len(segments) = 1
        /\ segments[1].start_ms = 0
        /\ segments[1].end_ms =
               target_duration_ms_of(max_duration_ms, source_duration_ms)

\* C16: every value returned by score_angle_at_time lies in [0, 100].
C16_ScoreInRange ==
    pc = "scored" =>
        \A k \in 1..Len(all_moments) :
            /\ all_moments[k].score >= 0
            /\ all_moments[k].score <= 100 * Scale


\* C17: generate_timeline called with an empty camera list returns the empty
\* timeline (segments, zooms, ad_slots and chapters all empty) for every
\* event category, and asks neither for the duration of any media nor for
\* any search
C17_EmptyCamerasEmptyTimeline ==
    (pc = "done" /\ videos = << >>) =>
        /\ segments = << >>
        /\ zooms = << >>
        /\ ad_slots = << >>
        /\ chapters = << >>
        /\ calls.duration = 0
        /\ calls.search = 0

\* a run without cameras has returned, although an index was given whose
\* queries would all have failed
C17_Witness ==
    /\ pc = "done"
    /\ videos = << >>
    /\ index_id
    /\ search = FailingSearch
    /\ event_type = "lecture"

\* C18: generate_timeline called with a non-empty camera list whose source
\* duration is 0 returns the empty timeline: segments, zooms, ad_slots and
\* chapters are all empty, with or without a search index
C18_ZeroDurationEmptyTimeline ==
    (pc = "done" /\ videos # << >> /\ source_duration_ms = 0) =>
        /\ segments = << >>
        /\ zooms = << >>
        /\ ad_slots = << >>
        /\ chapters = << >>

\* C19: whatever calls of the search collaborator fail, build_scene_contexts,
\* generate_zoom_moments, generate_ad_slots and generate_chapters return
\* normally: no run of generate_timeline ends with the failure propagated
C19_SearchFailureNeverPropagates == pc # "raised"

\* a run has returned its timeline after a failed scene query, a failed zoom
\* query, failed key-moment and speech queries and a failed chapter query
C19_Witness ==
    /\ pc = "done"
    /\ index_id
    /\ search = FailingSearch
    /\ scene_search_calls(videos, index_id, event_type) > 0
    /\ ad_search_calls(duration_ms, index_id, search) > 0
    /\ calls.search = scene_search_calls(videos, index_id, event_type) + 4

\* C20: a failed search query has exactly the effect of that one query
\* returning an empty result set: the contexts, the ad slots and the chapters
\* of a run in which an issued query q raised equal those obtained when q
\* returns no hits and every other query returns what it would have returned
C20_FailureIsEmptyResult ==
    (pc = "done" /\ videos # << >> /\ index_id) =>
        /\ \A q \in 1..scene_search_calls(videos, index_id, event_type) :
              search.scene[q].fail =>
                  scene_contexts =
                      build_scene_contexts(videos, index_id, event_type,
                                           [search.scene EXCEPT ![q] = NoHits])
        /\ ad_search_calls(duration_ms, index_id, search) > 0 =>
              /\ \A q \in 1..calls_in_one_try(search.key_results, 5) :
                    search.key_results[q].fail =>
                        ad_slots =
                            generate_ad_slots(duration_ms, profile, index_id,
                                              scene_contexts,
                                              [search EXCEPT !.key_results[q] = NoHits])
              /\ search.speech_result.fail =>
                    ad_slots =
                        generate_ad_slots(duration_ms, profile, index_id, scene_contexts,
                                          [search EXCEPT !.speech_result = NoHits])
        /\ \A q \in 1..chapter_search_calls(event_type, index_id, search.chapter_results) :
              search.chapter_results[q].fail =>
                  chapters =
                      generate_chapters(duration_ms, event_type, index_id,
                                        [search.chapter_results EXCEPT ![q] = NoHits])


\* C21: generate_timeline called with an event category outside sports,
\* ceremony, performance, speech, lecture ends in a validation failure: the
\* run returns no timeline
C21_InvalidEventRejected ==
    event_type \notin EventTypes => pc \notin { "done" }


\* C22: the scene-context windows returned by build_scene_contexts are in
\* non-decreasing start_ms order and no two of them share a time instant,
\* also when several cameras carry embeddings for the same time range
C22_WindowsChronologicalDisjoint ==
    pc = "contexts" =>
        \A i, j \in 1..Len(scene_contexts) :
            i < j =>
                /\ scene_contexts[i].start_ms <= scene_contexts[j].start_ms
                /\ ~(/\ scene_contexts[i].start_ms < scene_contexts[j].end_ms
                     /\ scene_contexts[j].start_ms < scene_contexts[i].end_ms)


\* C25: the moments returned by select_best_moments fit in the duration
\* budget: 2000 ms x (number of returned moments) never exceeds
\* target_duration_ms, also for targets that are not a multiple of 2000 ms
C25_SelectionFitsBudget ==
    pc = "selected" =>
        BUCKET_MS * Len(selected_moments)
            <= target_duration_ms_of(max_duration_ms, source_duration_ms)


\* the moments of the highest score of their 2-second bucket
bucket_winners ==
    { all_moments[i] : i \in { n \in 1..Len(all_moments) :
          \A j \in 1..Len(all_moments) :
              all_moments[j].time_ms = all_moments[n].time_ms
                  => all_moments[j].score <= all_moments[n].score } }

\* the buckets whose winner reaches the quality floor
eligible_buckets ==
    { w.time_ms : w \in { x \in bucket_winners : x.score >= MIN_SEGMENT_QUALITY_SCORE } }

\* ceil(target_duration_ms / 2000)
budget_in_buckets ==
    (target_duration_ms_of(max_duration_ms, source_duration_ms) + BUCKET_MS - 1)
        \div BUCKET_MS

\* C26: select_best_moments returns, in strictly increasing time order,
\* exactly the top k bucket winners by 0.6 x score + 0.4 x engagement among
\* the winners at or above the quality floor, k = min(number of such
\* winners, ceil(target_duration_ms / 2000)); no returned moment is below
\* the floor and no bucket gives two moments
C26_TopWinnersSelected ==
    pc = "selected" =>
        LET winners == bucket_winners
            qualifying == { w \in winners : w.score >= MIN_SEGMENT_QUALITY_SCORE }
            chosen == { selected_moments[j].time_ms : j \in 1..Len(selected_moments) }
            left_out == { w \in qualifying : w.time_ms \notin chosen }
        IN  /\ Len(selected_moments)
                  = Min2(Cardinality({ w.time_ms : w \in qualifying }), budget_in_buckets)
            /\ \A i \in 1..Len(selected_moments) : selected_moments[i] \in qualifying
            /\ \A i, j \in 1..Len(selected_moments) :
                  i < j => selected_moments[i].time_ms < selected_moments[j].time_ms
            /\ \A i \in 1..Len(selected_moments) :
                  \A w \in left_out :
                      6 * w.score + 4 * Scale * w.engagement
                          <= 6 * selected_moments[i].score
                             + 4 * Scale * selected_moments[i].engagement

\* the budget was smaller than the number of qualifying buckets: a winner of
\* lower score but higher blended quality was returned and a winner of
\* higher score left out
C26_Witness ==
    /\ pc = "selected"
    /\ Len(videos) = 2
    /\ Len(selected_moments) = budget_in_buckets
    /\ Cardinality(eligible_buckets) > budget_in_buckets
    /\ \E i \in 1..Len(selected_moments) :
          \E w \in bucket_winners :
              /\ w.time_ms \in eligible_buckets
              /\ \A j \in 1..Len(selected_moments) :
                    selected_moments[j].time_ms # w.time_ms
              /\ w.score > selected_moments[i].score

(***************************************************************************)
(* SpecMoments: pass 2, build_variable_segments and the diversity          *)
(* post-process on a table of pass-1 moments in which every camera has the *)
(* same score in every bucket.                                             *)
(***************************************************************************)
UniformScores == { 20 * Scale, 30 * Scale, 50 * Scale, 100 * Scale }

\* one moment per bucket and camera, bucket by bucket, as score_all_moments
\* lists them
UniformMoments(n, buckets, score) ==
    [k \in 1..(buckets * n) |->
        Moment(((k - 1) \div n) * BUCKET_MS, ((k - 1) % n) + 1, score, 50)]

InitMoments ==
    /\ IdleScore
    /\ IdleOutputs
    /\ IdleSync
    /\ pc = "scored"
    /\ event_type \in EventTypes
    /\ max_duration_ms \in { 0, 10000 }
    /\ \E n \in 1..MaxMomentCameras, buckets \in 1..MaxMomentBuckets,
          score \in UniformScores :
          /\ videos = CameraList(n)
          /\ source_duration_ms = BUCKET_MS * buckets
          /\ all_moments = UniformMoments(n, buckets, score)
    /\ selected_moments = << >>
    /\ current_segment = NoSegment
    /\ segments = << >>
    /\ duration_ms = 0
    /\ profile = "none"
    /\ index_id = FALSE
    /\ scene_contexts = << >>
    /\ search = NoSearch
    /\ ad_slots = << >>

NextMoments == SelectBestMoments \/ BuildVariableSegments \/ EnsureDiversity

SpecMoments == InitMoments /\ [][NextMoments]_vars

\* 3 cameras, sports, 60 s of buckets, every camera at 50 in every bucket
UniformScenario ==
    /\ event_type = "sports"
    /\ max_duration_ms = 0
    /\ Len(videos) = 3
    /\ all_moments = UniformMoments(3, 30, 50 * Scale)

\* C7: in the uniform scenario pass 2 followed by build_variable_segments
\* yields exactly one segment, on one camera, covering all 60 s; after
\* _ensure_angle_diversity every camera appears in at least one segment.
C7_UniformScores ==
    UniformScenario =>
        /\ pc = "built" =>
              /\ Len(segments) = 1
              /\ segments[1].start_ms = 0
              /\ segments[1].end_ms = 60000
        /\ pc = "diverse" =>
              \A v \in all_video_ids(videos) : v \in used_video_ids(segments)

\* the scenario after the post-process: the dominant camera and one slice of
\* MIN_SEGMENT_DURATION_MS for each of the other two
C7_Witness ==
    /\ UniformScenario
    /\ pc = "diverse"
    /\ Len(selected_moments) = 30
    /\ \E i, j \in 1..Len(segments) :
          /\ i # j
          /\ segments[i].video_id # segments[j].video_id
          /\ segments[i].video_id # segments[1].video_id
          /\ segments[j].video_id # segments[1].video_id
          /\ SegDuration(segments[i]) = MIN_SEGMENT_DURATION_MS
          /\ SegDuration(segments[j]) = MIN_SEGMENT_DURATION_MS

(***************************************************************************)
(* audio_sync.py: sync_videos.  Decoding the media and correlating the     *)
(* onset envelopes is the work of librosa and scipy; the model takes, for  *)
(* each feed, what they give: an exception, or the length of the onset     *)
(* envelope, whether it is zero throughout (a silent track), and the index *)
(* of the correlation peak.  The lag in frames and the offset in           *)
(* milliseconds are computed from them as find_audio_offset does.          *)
(***************************************************************************)
HOP_LENGTH == 512
SAMPLE_RATE == 22050

\* what the audio of one media file gives: extract_audio_fingerprint raises
\* (fail), or it returns an onset envelope of onset_frames values, all of
\* them zero when the track is silent; peak_idx is np.argmax of the
\* correlation of the reference with this feed when neither of them is silent
Feed(f, s, n, peak) == [fail |-> f, silent |-> s, onset_frames |-> n, peak_idx |-> peak]

\* offset_seconds = offset_frames * hop_length / sr: the integer product
\* divided by the sample rate, as a double
offset_seconds_of(offset_frames) == fl_of_ratio(offset_frames * HOP_LENGTH, SAMPLE_RATE)

\* int(offset_seconds * 1000): the product is rounded to a double and int()
\* truncates it towards zero, so that 2058.24 s gives 2058239 ms
offset_ms_of(offset_frames) ==
    fl_int(fl_mul(offset_seconds_of(offset_frames), fl_of_ratio(1000, 1)))

\* the fingerprint of the reference is extracted first, then the target's;
\* whichever raises, find_audio_offset raises
find_audio_offset_raises(reference, target) == reference.fail \/ target.fail

\* a silent envelope normalises to zeros, (0 - 0) / (0 + 1e-8); the
\* correlation with it is zero throughout and np.argmax gives index 0
peak_idx_of(reference, target) ==
    IF reference.silent \/ target.silent THEN 0 ELSE target.peak_idx

\* offset_frames = peak_idx - len(target_onset) + 1
offset_frames_of(reference, target) ==
    peak_idx_of(reference, target) - target.onset_frames + 1

find_audio_offset(reference, target) ==
    offset_ms_of(offset_frames_of(reference, target))

\* a slip: a feed that fails is left out of the list
align_step_skip_failed(offs, reference, target) ==
    IF find_audio_offset_raises(reference, target) THEN offs
    ELSE Append(offs, find_audio_offset(reference, target))

\* body of "for target in video_paths[1:]": try / except Exception
align_step(offs, reference, target) ==
    IF find_audio_offset_raises(reference, target) THEN Append(offs, 0)
    ELSE Append(offs, find_audio_offset(reference, target))

RECURSIVE align_targets(_, _, _, _)
align_targets(offs, paths, feeds, i) ==
    IF i > Len(paths) THEN offs
    ELSE align_targets(align_step(offs, feeds[paths[1]], feeds[paths[i]]),
                       paths, feeds, i + 1)

sync_videos(paths, feeds) ==
    IF paths = << >> THEN << >>
    ELSE IF Len(paths) = 1 THEN << 0 >>
    ELSE align_targets(<< 0 >>, paths, feeds, 2)

(***************************************************************************)
(* SpecSync: one call of sync_videos                                       *)
(***************************************************************************)
\* envelopes of the other feeds, with the peaks their correlation with the
\* reference may have.  A peak at 177282 is a lag of 88641 = 441 x 201
\* frames, 2058.24 s: a lag whose milliseconds are a whole number that the
\* doubles miss
TargetFrames == { 45, 88642 }
PeaksOf(n) == IF n = 45 THEN { 0, 43, 44, 87, 144 } ELSE { 0, 177282 }

\* feeds that are decoded and have sound
SoundFeeds ==
    UNION { { Feed(FALSE, FALSE, n, peak) : peak \in PeaksOf(n) } : n \in TargetFrames }

\* feeds that are decoded and are silent: no correlation peak is read
SilentFeeds == { Feed(FALSE, TRUE, n, 0) : n \in TargetFrames }

\* feeds whose decoding raises; the other fields say what the file would
\* give if it were decoded
FailedFeeds == { [feed EXCEPT !.fail = TRUE] : feed \in SoundFeeds \cup SilentFeeds }

\* the first feed is the reference, of 88642 frames (2058.26 s): it is never
\* aligned to itself, and only whether it is decoded and whether it is
\* silent is read
ReferenceFeeds ==
    { Feed(f, s, 88642, 0) : f \in BOOLEAN, s \in BOOLEAN }

FeedOutcomeLists(n) ==
    { fo \in [1..n -> SoundFeeds \cup SilentFeeds \cup FailedFeeds \cup ReferenceFeeds] :
          \A i \in 1..n : (i = 1) = (fo[i] \in ReferenceFeeds) }

InitSync ==
    /\ IdleScore
    /\ IdleOutputs
    /\ pc = "sync"
    /\ \E n \in 0..MaxFeeds :
          /\ video_paths = [i \in 1..n |-> i]
          /\ feed_outcomes \in FeedOutcomeLists(n)
    /\ offsets = << >>
    /\ duration_ms = 0
    /\ profile = "none"
    /\ index_id = FALSE
    /\ scene_contexts = << >>
    /\ search = NoSearch
    /\ ad_slots = << >>
    /\ IdleTimeline

SyncVideos ==
    /\ pc = "sync"
    /\ offsets' = sync_videos(video_paths, feed_outcomes)
    /\ pc' = "synced"
    /\ UNCHANGED << score_vars, out_vars, event_type, videos, source_duration_ms, max_duration_ms,
                    all_moments, selected_moments, current_segment, segments,
                    duration_ms, profile, index_id, scene_contexts, search, ad_slots,
                    video_paths, feed_outcomes >>

NextSync == SyncVideos

SpecSync == InitSync /\ [][NextSync]_vars

\* C14: for n >= 1 feeds, whatever feeds fail, sync_videos returns exactly n
\* integer offsets, the first of them 0; for a single feed it returns [0].
C14_OneOffsetPerFeed ==
    (pc = "synced" /\ Len(video_paths) >= 1) =>
        /\ Len(offsets) = Len(video_paths)
        /\ \A i \in 1..Len(offsets) : offsets[i] \in Int
        /\ offsets[1] = 0
        /\ Len(video_paths) = 1 => offsets = << 0 >>

\* three feeds, the second failed and the third was aligned to a negative lag
C14_Witness ==
    /\ pc = "synced"
    /\ Len(video_paths) = 3
    /\ ~feed_outcomes[1].fail
    /\ feed_outcomes[2].fail
    /\ ~feed_outcomes[3].fail
    /\ offsets[3] < 0

\* aligning feed i fails: its decoding raises, or its signal is degenerate
\* (a silent track)
AligningFails(feed) == feed.fail \/ feed.silent

\* the same file, decoded and with sound
Healthy(feed) == [feed EXCEPT !.fail = FALSE, !.silent = FALSE]

\* C15: when aligning a non-reference feed fails, by a decode error or by a
\* degenerate signal, that feed's offset is 0 and every other feed has the
\* offset of the run in which that feed did not fail.
C15_FailureStaysLocal ==
    pc = "synced" =>
        \A i \in 2..Len(video_paths) :
            AligningFails(feed_outcomes[i]) =>
                /\ Len(offsets) = Len(video_paths)
                /\ offsets[i] = 0
                /\ \A j \in 1..Len(video_paths) :
                      j # i =>
                          offsets[j] =
                              sync_videos(video_paths,
                                          [feed_outcomes EXCEPT ![i] = Healthy(@)])[j]

\* the part of C15 on decode errors: a feed whose decoding raises has offset
\* 0 and leaves the offsets of the other feeds as they are without the error
C15_DecodeErrorStaysLocal ==
    pc = "synced" =>
        \A i \in 2..Len(video_paths) :
            feed_outcomes[i].fail =>
                /\ Len(offsets) = Len(video_paths)
                /\ offsets[i] = 0
                /\ \A j \in 1..Len(video_paths) :
                      j # i =>
                          offsets[j] =
                              sync_videos(video_paths,
                                          [feed_outcomes EXCEPT ![i].fail = FALSE])[j]

(***************************************************************************)
(* SpecZooms: one call of generate_zoom_moments.  The search returns its   *)
(* hits in any order, or fails.                                            *)
(***************************************************************************)
ZoomHits ==
    { Hit(0, 2, 90), Hit(5, 6, 60), Hit(10, 20, 90), Hit(19, 19, 30),
      Hit(25, 27, 50), Hit(30, 40, 60) }

RECURSIVE HitLists(_, _)
HitLists(hits, n) ==
    IF n = 0 THEN { << >> }
    ELSE HitLists(hits, n - 1)
         \cup { Append(l, h) : l \in { x \in HitLists(hits, n - 1) : Len(x) = n - 1 },
                               h \in hits }

ZoomResults == { Raises } \cup { Outcome(FALSE, l) : l \in HitLists(ZoomHits, MaxZoomHits) }

InitZooms ==
    /\ IdleScore
    /\ IdleOutputs
    /\ IdleSync
    /\ IdleTimeline
    /\ pc = "zooms"
    /\ duration_ms \in { 0, 22000 }
    /\ profile = "none"
    /\ index_id \in BOOLEAN
    /\ scene_contexts = << >>
    /\ \E r \in ZoomResults : search = [NoSearch EXCEPT !.zoom_result = r]
    /\ index_id = FALSE => search = NoSearch
    /\ ad_slots = << >>

GenerateZoomMoments ==
    /\ pc = "zooms"
    /\ calls' = [calls EXCEPT !.search = @ + zoom_search_calls(index_id)]
    /\ IF generate_zoom_moments_raises(index_id, search.zoom_result)
       THEN /\ pc' = "raised"
            /\ UNCHANGED zooms
       ELSE /\ pc' = "zoomed"
            /\ zooms' = generate_zoom_moments(duration_ms, index_id, search.zoom_result)
    /\ UNCHANGED << score_vars, chapters, sync_vars, event_type, videos, source_duration_ms,
                    max_duration_ms, all_moments, selected_moments, current_segment,
                    segments, duration_ms, profile, index_id, scene_contexts, search,
                    ad_slots >>

NextZooms == GenerateZoomMoments

SpecZooms == InitZooms /\ [][NextZooms]_vars

\* C24: any two zoom moments returned by generate_zoom_moments have start_ms
\* values at least ZOOM_MIN_SPACING_SEC x 1000 apart, whatever the order in
\* which the hits arrive
C24_ZoomsSpaced ==
    pc = "zoomed" =>
        \A i, j \in 1..Len(zooms) :
            i # j => Abs(zooms[i].start_ms - zooms[j].start_ms)
                         >= ZOOM_MIN_SPACING_SEC * 1000

\* two zooms were returned from hits that arrived out of time order: a hit
\* earlier in time than the zoom before it was left out
C24_Witness ==
    /\ pc = "zoomed"
    /\ Len(zooms) = 2
    /\ Len(search.zoom_result.hits) = 3
    /\ search.zoom_result.hits[2].start_sec < search.zoom_result.hits[1].start_sec
    /\ zooms[1].start_ms = search.zoom_result.hits[1].start_sec * 1000
    /\ zooms[2].start_ms = search.zoom_result.hits[3].start_sec * 1000


(***************************************************************************)
(* SpecScore: one call of score_angle_at_time on one camera.               *)
(***************************************************************************)
ScoreAngles == { "wide", "closeup", "crowd", "other" }

\* embeddings of the camera: none, one with a vector, one without its vector
ScoreEmbeddings ==
    { << >>, << Embedding(0, 4, AxisX) >>, << Embedding(0, 4, << >>) >> }

\* the scene context of the call: none, or one with or without a vector
ScoreContexts ==
    { NoContext }
    \cup { ContextE(0, 4000, emb, i, t) :
               emb \in { << >>, AxisX, AxisY, << 1, 0, 0 >> },
               i \in { 3, 5, 8 }, t \in { "None", "high_action" } }

ScoreTimes == { 0, 2000, 6000 }

InitScore ==
    /\ IdleOutputs
    /\ IdleSync
    /\ IdleTimeline
    /\ pc = "score"
    /\ duration_ms = 0
    /\ profile = "none"
    /\ index_id = FALSE
    /\ scene_contexts = << >>
    /\ search = NoSearch
    /\ ad_slots = << >>
    /\ \E a \in ScoreAngles, embs \in ScoreEmbeddings, t \in ScoreTimes,
          c \in ScoreContexts, n \in 1..MaxCameras, et \in EventTypes :
          \E k \in 0..(n - 1) :
              score_call = [video |-> Video(1, a, embs), time_ms |-> t,
                            scene_context |-> c, video_index |-> k,
                            total_videos |-> n, et |-> et]
    /\ angle_score = Score(0, 0)

ScoreAngleAtTime ==
    /\ pc = "score"
    /\ angle_score' = score_angle_at_time(score_call.video, score_call.time_ms,
                                          switching_profile_of(score_call.et),
                                          score_call.scene_context,
                                          score_call.video_index,
                                          score_call.total_videos, score_call.et)
    /\ pc' = "angle_scored"
    /\ UNCHANGED << score_call, out_vars, sync_vars, event_type, videos,
                    source_duration_ms, max_duration_ms, all_moments, selected_moments,
                    current_segment, segments, duration_ms, profile, index_id,
                    scene_contexts, search, ad_slots >>

NextScore == ScoreAngleAtTime

SpecScore == InitScore /\ [][NextScore]_vars

\* C27: whenever the camera has an embedding covering time_ms and no
\* scene-context embedding is available (context absent, or present with an
\* empty embedding), the similarity component is the flat 15 points: the
\* returned score is the one computed with 15 for that component
C27_FlatFloorWithoutContextEmbedding ==
    (/\ pc = "angle_scored"
     /\ current_embedding_at(score_call.video.embeddings, score_call.time_ms, 1) # << >>
     /\ (\/ score_call.scene_context = NoContext
         \/ score_call.scene_context.embedding = << >>))
    => angle_score = score_angle_with(score_call.video, score_call.time_ms,
                                      switching_profile_of(score_call.et),
                                      score_call.scene_context, score_call.video_index,
                                      score_call.total_videos, score_call.et, 15 * Scale)


(***************************************************************************)
(* SpecDiversity: one call of _ensure_angle_diversity on a contiguous list *)
(* of segments, as build_variable_segments leaves them: bucket-aligned,    *)
(* each on any camera.                                                     *)
(***************************************************************************)
DivDurations == { 8000, 16000, 34000 }
DivStarts == { 0, 4000 }

\* the contiguous lists of n segments that start at start_ms
RECURSIVE ContiguousLists(_, _, _)
ContiguousLists(start_ms, n, cams) ==
    IF n = 0 THEN { << >> }
    ELSE UNION { { << Seg(start_ms, start_ms + d, c) >> \o rest :
                       c \in cams, rest \in ContiguousLists(start_ms + d, n - 1, cams) } :
                 d \in DivDurations }

InitDiversity ==
    /\ IdleScore
    /\ IdleOutputs
    /\ IdleSync
    /\ IdleRest
    /\ pc = "built"
    /\ event_type = "sports"
    /\ current_segment = NoSegment
    /\ \E n \in 1..MaxMomentCameras, len \in 1..MaxDivSegments, t \in DivStarts :
          /\ videos = CameraList(n)
          /\ segments \in ContiguousLists(t, len, 1..n)

NextDiversity == EnsureDiversity

SpecDiversity == InitDiversity /\ [][NextDiversity]_vars

\* each segment starts where the one before it ends
Contiguous(segs) ==
    \A i \in 1..(Len(segs) - 1) : segs[i + 1].start_ms = segs[i].end_ms

\* every slice inserted for a missing camera is still there, as it was
\* inserted, after every later insertion
RECURSIVE slices_kept(_, _)
slices_kept(segs, missing) ==
    \A id \in missing :
        LET inserted == diversity_insert(segs, id)
        IN  /\ \A out \in diversity_outcomes(inserted, missing \ { id }) :
                  \A k \in 1..Len(inserted) :
                      inserted[k].video_id = id
                          => \E j \in 1..Len(out) : out[j] = inserted[k]
            /\ slices_kept(inserted, missing \ { id })

\* C29: _ensure_angle_diversity preserves coverage: for a contiguous input
\* the output has the same first start_ms, the same last end_ms and the same
\* total duration, stays contiguous and non-overlapping, keeps every camera
\* that was used before, and a slice inserted for one missing camera is
\* never split or removed when a later missing camera is inserted
C29_DiversityPreservesCoverage ==
    [][(pc = "built" /\ pc' = "diverse" /\ segments # << >> /\ Contiguous(segments))
       => /\ segments' # << >>
          /\ segments'[1].start_ms = segments[1].start_ms
          /\ segments'[Len(segments')].end_ms = segments[Len(segments)].end_ms
          /\ total_duration_ms_of(segments') = total_duration_ms_of(segments)
          /\ Contiguous(segments')
          /\ \A i \in 1..Len(segments') : segments'[i].start_ms < segments'[i].end_ms
          /\ used_video_ids(segments) \subseteq used_video_ids(segments')
          /\ slices_kept(segments, all_video_ids(videos) \ used_video_ids(segments))]_vars

\* two cameras were missing from a list of two segments of 16000 ms on
\* camera 1; each now has its slice of MIN_SEGMENT_DURATION_MS, the second
\* half of one of the two segments
C29_Witness ==
    /\ pc = "diverse"
    /\ Len(videos) = 3
    /\ Len(segments) = 4
    /\ segments[1].start_ms = 4000
    /\ segments[4].end_ms = 4000 + 16000 + 16000
    /\ \A i \in 1..4 : SegDuration(segments[i]) = MIN_SEGMENT_DURATION_MS
    /\ segments[1].video_id = 1
    /\ segments[3].video_id = 1
    /\ { segments[2].video_id, segments[4].video_id } = { 2, 3 }


(***************************************************************************)
(* SpecHysteresis: build_variable_segments on contiguous buckets whose     *)
(* scores meet the hysteresis bound exactly in decimals: 39 = 1.3 x 30,    *)
(* where the doubles agree, and 39.52 = 1.3 x 30.4, where the double of    *)
(* 30.4 x 1.3 is 39.519999999999996.                                       *)
(***************************************************************************)
TiedScoreValues == { 30000, 39000, 30400, 39520 }

InitHysteresis ==
    /\ IdleScore
    /\ IdleOutputs
    /\ IdleSync
    /\ pc = "loop"
    /\ event_type \in EventTypes
    /\ videos = CameraList(2)
    /\ current_segment = NoSegment
    /\ segments = << >>
    /\ IdleRest

ConsumeTiedMoment ==
    /\ pc = "loop"
    /\ \E v \in 1..Len(videos), s \in TiedScoreValues, e \in EngagementValues :
          LET t == IF current_segment = NoSegment THEN 0 ELSE current_segment.end_ms
              r == bvs_step(current_segment, segments, Moment(t, v, s, e),
                            min_segment_ms_of(event_type))
          IN  /\ t <= BUCKET_MS * (MaxTiedBuckets - 1)
              /\ current_segment' = r.cur
              /\ segments' = r.segs
    /\ UNCHANGED << score_vars, out_vars, sync_vars, pc, event_type, videos, source_duration_ms, max_duration_ms,
                    all_moments, selected_moments, duration_ms, profile, index_id,
                    scene_contexts, search, ad_slots >>

NextHysteresis == ConsumeTiedMoment \/ FinishSegments

SpecHysteresis == InitHysteresis /\ [][NextHysteresis]_vars


====
